---- MODULE Spec2Model ----
(***************************************************************************)
(* Screener pipeline (DSL validator and SQL compiler) and alert processor  *)
(* of the api-gateway.                                                     *)
(*                                                                         *)
(*   validator.service.js  DSLValidatorService, AlertProcessor             *)
(*   compiler.service.js   ScreenerCompilerService, NotificationService    *)
(*                                                                         *)
(* JavaScript values are tagged records: [k |-> "undef"], [k |-> "num",    *)
(* n |-> 5], [k |-> "str", s |-> "IT"], [k |-> "bool", b |-> TRUE],        *)
(* [k |-> "arr", a |-> <<...>>] and objects ("node", "period",             *)
(* "timeframe", "sortitem", "dsl").  SQL text is a sequence of tokens.     *)
(***************************************************************************)
EXTENDS Integers, Sequences, FiniteSets, TLC

VARIABLES
  input,          \* the request body as received
  dsl,            \* the same object after validate() (it is mutated in place)
  phase,          \* "received" | "accepted" | "rejected" | "compiled" | "threw"
  errors,         \* validate().errors
  sql,            \* compile().sql, a token sequence
  params,         \* compile().params
  requiredTables, \* compile().requiredTables
  rows,           \* one instrument's values of the condition's column, oldest first
  selected,       \* whether the compiled WHERE clause selects that instrument
  now,            \* wall clock, in scheduler ticks (checkInterval)
  alerts,         \* table alert_subscriptions: id -> row
  notifications,  \* table notifications, in insertion order
  isRunning,      \* AlertProcessor.isRunning
  timer,          \* AlertProcessor.timer: 0 = null, otherwise the interval id
  timersActive,   \* interval timers that exist and have not been cleared
  cycles,         \* processAlerts() invocations in flight
  started,        \* processAlerts() invocations begun so far
  data,           \* the bundle {quote, metadata, fundamentals} one evaluateAlert() call is given
  triggered       \* what that call decided: "pending" | "yes" | "no"

dslVars == <<input, dsl, phase, errors, sql, params, requiredTables, rows, selected>>
alertVars == <<now, alerts, notifications, isRunning, timer, timersActive, cycles, started>>
evalVars == <<data, triggered>>
vars == <<input, dsl, phase, errors, sql, params, requiredTables, rows, selected,
          now, alerts, notifications, isRunning, timer, timersActive, cycles, started,
          data, triggered>>

(***************************************************************************)
(* JavaScript values                                                       *)
(***************************************************************************)
Undef == [k |-> "undef"]
Null == [k |-> "null"]
Num(n) == [k |-> "num", n |-> n]
Str(s) == [k |-> "str", s |-> s]
Bool(b) == [k |-> "bool", b |-> b]
Arr(a) == [k |-> "arr", a |-> a]

Range(s) == {s[i] : i \in DOMAIN s}

\* typeof v
TypeOf(v) ==
  CASE v.k = "undef" -> "undefined"
    [] v.k = "num" -> "number"
    [] v.k = "str" -> "string"
    [] v.k = "bool" -> "boolean"
    [] OTHER -> "object"

\* ToBoolean(v): what `if (v)`, `!v`, `v || d` and `v && w` test
Truthy(v) ==
  CASE v.k = "undef" -> FALSE
    [] v.k = "null" -> FALSE
    [] v.k = "num" -> v.n # 0
    [] v.k = "str" -> v.s # ""
    [] v.k = "bool" -> v.b
    [] OTHER -> TRUE

IsArray(v) == v.k = "arr"

\* v === 'text'
IsStr(v, text) == v.k = "str" /\ v.s = text

\* list.includes(v) for a list of strings
Includes(list, v) == v.k = "str" /\ v.s \in list

\* property reads that yield undefined on values without the property
Get_field(o) == IF o.k = "node" THEN o.field ELSE Undef
Get_operator(o) == IF o.k = "node" THEN o.operator ELSE Undef
Get_and(o) == IF o.k = "node" THEN o.and ELSE Undef
Get_or(o) == IF o.k = "node" THEN o.or ELSE Undef
Get_not(o) == IF o.k = "node" THEN o.not ELSE Undef

\* String(v), as string concatenation renders a value
RECURSIVE JoinValues(_)
Render(v) ==
  CASE v.k = "undef" -> "undefined"
    [] v.k = "num" -> ToString(v.n)
    [] v.k = "str" -> v.s
    [] v.k = "bool" -> IF v.b THEN "true" ELSE "false"
    [] v.k = "arr" -> JoinValues(v.a)
    [] OTHER -> "[object Object]"
JoinValues(a) ==
  IF a = <<>> THEN ""
  ELSE IF Len(a) = 1 THEN Render(a[1])
  ELSE Render(a[1]) \o "," \o JoinValues(Tail(a))

\* String.prototype.toLowerCase / toUpperCase on the strings that occur
toLowerCase(s) ==
  CASE s \in {"asc", "ASC", "Asc"} -> "asc"
    [] s \in {"desc", "DESC", "Desc"} -> "desc"
    [] s \in {"sideways", "SIDEWAYS"} -> "sideways"
    [] s \in {"avg", "AVG"} -> "avg"
    [] s \in {"sum", "SUM"} -> "sum"
    [] OTHER -> s
toUpperCase(s) ==
  CASE s \in {"asc", "ASC", "Asc"} -> "ASC"
    [] s \in {"desc", "DESC", "Desc"} -> "DESC"
    [] s \in {"sideways", "SIDEWAYS"} -> "SIDEWAYS"
    [] s \in {"avg", "AVG"} -> "AVG"
    [] s \in {"sum", "SUM"} -> "SUM"
    [] OTHER -> s

(***************************************************************************)
(* validator.service.js: whitelists                                        *)
(***************************************************************************)
CompaniesFields ==
  {"ticker", "name", "market_cap", "sector", "industry", "exchange",
   "next_earnings_date", "last_buyback_date", "promoter_holding"}
PriceHistoryFields == {"open", "high", "low", "close", "volume"}
FundamentalsFields ==
  {"revenue", "net_income", "eps", "operating_margin", "roe", "roa",
   "pe_ratio", "pb_ratio", "peg_ratio", "ebitda", "ebitda_margin",
   "debt_to_equity", "current_ratio", "total_assets", "total_debt",
   "free_cash_flow", "operating_cash_flow", "revenue_growth_yoy",
   "ebitda_growth_yoy"}
DerivedFields == {"debt_to_fcf"}
DebtProfileFields == {"short_term_debt", "long_term_debt"}
CashflowFields == {"cfo", "cfi", "cff", "capex"}
AnalystFields ==
  {"eps_estimate", "revenue_estimate", "price_target_low",
   "price_target_avg", "price_target_high"}

ALLOWED_FIELDS ==
  CompaniesFields \cup PriceHistoryFields \cup FundamentalsFields \cup
  DerivedFields \cup DebtProfileFields \cup CashflowFields \cup AnalystFields

ALLOWED_OPERATORS ==
  {"<", ">", "<=", ">=", "=", "!=", "between", "in", "exists", "all_quarters"}

ALLOWED_LOGICAL_OPERATORS == {"and", "or", "not"}

ALLOWED_AGGREGATIONS == {"all", "any", "avg", "sum", "latest"}

MinPeriodN == 1
MaxPeriodN == 20
MinLimit == 1
MaxLimit == 1000

(***************************************************************************)
(* validator.service.js: DSLValidatorService                               *)
(***************************************************************************)
\* _isCondition(obj): obj && typeof obj === 'object' && obj.field && obj.operator
_isCondition(obj) ==
  /\ Truthy(obj)
  /\ TypeOf(obj) = "object"
  /\ Truthy(Get_field(obj))
  /\ Truthy(Get_operator(obj))

\* the period block of _validateCondition
PeriodErrors(p) ==
  IF ~Truthy(p) THEN <<>>
  ELSE IF TypeOf(p) # "object" THEN <<"period must be an object">>
  ELSE
    (IF ~Truthy(p.type) \/ ~IsStr(p.type, "last_n_quarters")
       THEN <<"period.type must be \"last_n_quarters\"">> ELSE <<>>)
    \o
    (IF \/ ~Truthy(p.n)
        \/ TypeOf(p.n) # "number"
        \/ p.n.n < MinPeriodN
        \/ p.n.n > MaxPeriodN
       THEN <<"period.n must be a number between 1 and 20">> ELSE <<>>)
    \o
    (IF Truthy(p.aggregation) /\ ~Includes(ALLOWED_AGGREGATIONS, p.aggregation)
       THEN <<"Invalid period aggregation">> ELSE <<>>)

\* the value-shape block of _validateCondition
ValueShapeErrors(condition) ==
  IF Truthy(condition.value_is_field) THEN
    IF TypeOf(condition.value) # "string" \/ ~Includes(ALLOWED_FIELDS, condition.value)
      THEN <<"Cross-field comparison value must be an allowed field">> ELSE <<>>
  ELSE IF IsStr(condition.operator, "between") THEN
    IF ~IsArray(condition.value) \/ Len(condition.value.a) # 2
      THEN <<"Between operator requires array of 2 values">> ELSE <<>>
  ELSE IF IsStr(condition.operator, "in") THEN
    IF ~IsArray(condition.value)
      THEN <<"In operator requires array of values">> ELSE <<>>
  ELSE IF IsStr(condition.operator, "exists") THEN
    IF TypeOf(condition.value) # "boolean"
      THEN <<"Exists operator requires boolean value">> ELSE <<>>
  ELSE <<>>

\* the field check of _validateCondition
FieldErrors(condition) ==
  IF ~Truthy(condition.field) THEN <<"Condition must have a field property">>
  ELSE IF ~Includes(ALLOWED_FIELDS, condition.field) THEN <<"Invalid field">>
  ELSE <<>>

\* a variant of OperatorErrors without the whitelist
OperatorErrorsAnyOperator(condition) ==
  IF ~Truthy(condition.operator) THEN <<"Condition must have an operator property">>
  ELSE <<>>

\* the operator check of _validateCondition
OperatorErrors(condition) ==
  IF ~Truthy(condition.operator) THEN <<"Condition must have an operator property">>
  ELSE IF ~Includes(ALLOWED_OPERATORS, condition.operator) THEN <<"Invalid operator">>
  ELSE <<>>

\* _validateCondition(condition): the errors it returns
_validateCondition(condition) ==
  FieldErrors(condition)
  \o OperatorErrors(condition)
  \o (IF condition.value.k = "undef" /\ ~IsStr(condition.operator, "exists")
        THEN <<"Condition must have a value property">> ELSE <<>>)
  \o ValueShapeErrors(condition)
  \o PeriodErrors(condition.period)

\* x || d
OrElse(x, d) == IF Truthy(x) THEN x ELSE d

\* _validateCondition(condition): the condition as it leaves it (legacy
\* timeframe normalised to period, after the period checks)
NormaliseCondition(condition) ==
  IF Truthy(condition.timeframe) /\ ~Truthy(condition.period) THEN
    [condition EXCEPT
       !.period = [k |-> "period",
                   type |-> Str("last_n_quarters"),
                   n |-> OrElse(IF condition.timeframe.k = "timeframe"
                                  THEN condition.timeframe.period ELSE Undef, Num(1)),
                   aggregation |-> OrElse(IF condition.timeframe.k = "timeframe"
                                            THEN condition.timeframe.aggregation
                                            ELSE Undef, Str("all"))],
       !.timeframe = Undef]
  ELSE condition

\* Object.keys(filter) that are not logical operators
UnknownKeys(filter) ==
  IF filter.k = "arr" THEN [i \in 1..Len(filter.a) |-> "index"]
  ELSE IF filter.k # "node" THEN <<>>
  ELSE
    (IF filter.field.k # "undef" THEN <<"field">> ELSE <<>>)
    \o (IF filter.operator.k # "undef" THEN <<"operator">> ELSE <<>>)
    \o (IF filter.value.k # "undef" THEN <<"value">> ELSE <<>>)
    \o (IF filter.value_is_field.k # "undef" THEN <<"value_is_field">> ELSE <<>>)
    \o (IF filter.period.k # "undef" THEN <<"period">> ELSE <<>>)
    \o (IF filter.timeframe.k # "undef" THEN <<"timeframe">> ELSE <<>>)
    \o (IF filter.other THEN <<"other">> ELSE <<>>)

\* Object.keys(filter) that are logical operators
LogicalKeys(filter) ==
  IF filter.k # "node" THEN <<>>
  ELSE
    (IF filter.and.k # "undef" THEN <<"and">> ELSE <<>>)
    \o (IF filter.or.k # "undef" THEN <<"or">> ELSE <<>>)
    \o (IF filter.not.k # "undef" THEN <<"not">> ELSE <<>>)

KeyValue(filter, key) ==
  CASE key = "and" -> filter.and
    [] key = "or" -> filter.or
    [] key = "not" -> filter.not

\* _validateFilter(filter): the errors it returns
RECURSIVE _validateFilter(_)
RECURSIVE ValidateItems(_)
RECURSIVE ValidateKeys(_, _)
ValidateItems(items) ==
  IF items = <<>> THEN <<>>
  ELSE
    LET condition == Head(items) IN
      (IF _isCondition(condition) THEN _validateCondition(condition)
       ELSE IF TypeOf(condition) = "object" THEN _validateFilter(condition)
       ELSE <<"Invalid condition in filter">>)
      \o ValidateItems(Tail(items))
ValidateKeys(filter, keys) ==
  IF keys = <<>> THEN <<>>
  ELSE
    (IF ~IsArray(KeyValue(filter, Head(keys)))
       THEN <<"Logical operator must contain an array">>
       ELSE ValidateItems(KeyValue(filter, Head(keys)).a))
    \o ValidateKeys(filter, Tail(keys))
_validateFilter(filter) ==
  IF ~Truthy(filter) \/ TypeOf(filter) # "object" THEN <<"Filter must be an object">>
  ELSE
    ValidateKeys(filter, LogicalKeys(filter))
    \o [i \in 1..Len(UnknownKeys(filter)) |-> "Unknown filter operator"]

\* _validateFilter(filter): the filter as it leaves it (every condition it
\* visited went through _validateCondition, which normalises timeframe)
RECURSIVE NormaliseFilter(_)
NormaliseItem(item) ==
  IF _isCondition(item) THEN NormaliseCondition(item)
  ELSE IF TypeOf(item) = "object" THEN NormaliseFilter(item)
  ELSE item
NormaliseKey(v) ==
  IF IsArray(v) THEN Arr([i \in 1..Len(v.a) |-> NormaliseItem(v.a[i])]) ELSE v
NormaliseFilter(filter) ==
  IF ~Truthy(filter) \/ filter.k # "node" THEN filter
  ELSE [filter EXCEPT !.and = NormaliseKey(filter.and),
                      !.or = NormaliseKey(filter.or),
                      !.not = NormaliseKey(filter.not)]

\* _validateSort(sort)
SortItemErrors(sortItem) ==
  (IF ~Truthy(sortItem.field) THEN <<"Sort item must have a field property">>
   ELSE IF ~Includes(ALLOWED_FIELDS, sortItem.field) THEN <<"Invalid sort field">>
   ELSE <<>>)
  \o
  (IF /\ Truthy(sortItem.direction)
      /\ toLowerCase(sortItem.direction.s) \notin {"asc", "desc"}
     THEN <<"Invalid sort direction">> ELSE <<>>)
RECURSIVE SortItemsErrors(_)
SortItemsErrors(items) ==
  IF items = <<>> THEN <<>>
  ELSE SortItemErrors(Head(items)) \o SortItemsErrors(Tail(items))
_validateSort(sort) ==
  IF ~IsArray(sort) THEN <<"Sort must be an array">>
  ELSE SortItemsErrors(sort.a)

\* _validateLimit(limit)
_validateLimit(limit) ==
  IF TypeOf(limit) # "number" \/ limit.n < MinLimit \/ limit.n > MaxLimit
    THEN <<"Limit must be a number between 1 and 1000">> ELSE <<>>

\* validate(dsl).errors
validate(d) ==
  IF ~Truthy(d) \/ TypeOf(d) # "object" THEN <<"DSL must be an object">>
  ELSE IF ~Truthy(d.filter) THEN <<"DSL must contain a filter property">>
  ELSE
    _validateFilter(d.filter)
    \o (IF Truthy(d.sort) THEN _validateSort(d.sort) ELSE <<>>)
    \o (IF d.limit.k # "undef" THEN _validateLimit(d.limit) ELSE <<>>)

\* the dsl object after validate(dsl): conditions are normalised in place
\* whether or not the tree is accepted
Normalise(d) ==
  IF ~Truthy(d) \/ TypeOf(d) # "object" \/ ~Truthy(d.filter) THEN d
  ELSE [d EXCEPT !.filter = NormaliseFilter(d.filter)]

\* validate(dsl).valid
Accepts(d) == validate(d) = <<>>

(***************************************************************************)
(* compiler.service.js: ScreenerCompilerService                            *)
(***************************************************************************)
\* FIELD_TABLE_MAP[field].table
FieldTable(f) ==
  CASE f \in CompaniesFields -> "companies"
    [] f \in PriceHistoryFields -> "price_history"
    [] f \in FundamentalsFields -> "fundamentals_quarterly"
    [] f \in DerivedFields -> "fundamentals_quarterly"
    [] f \in DebtProfileFields -> "debt_profile"
    [] f \in CashflowFields -> "cashflow_statements"
    [] f \in AnalystFields -> "analyst_estimates"

\* FIELD_TABLE_MAP: every key's column is the key itself
FIELD_TABLE_MAP ==
  [f \in CompaniesFields \cup PriceHistoryFields \cup FundamentalsFields \cup
         DerivedFields \cup DebtProfileFields \cup CashflowFields \cup AnalystFields |->
     [table |-> FieldTable(f), column |-> f, derived |-> f \in DerivedFields]]

\* FIELD_TABLE_MAP[v] is defined
HasFieldInfo(v) == v.k = "str" /\ v.s \in DOMAIN FIELD_TABLE_MAP

\* FIELD_TABLE_MAP.debt_to_fcf.sql(alias)
DerivedSql(alias) ==
  "(" \o alias \o ".total_debt::numeric / NULLIF(" \o alias \o ".free_cash_flow::numeric, 0))"

PERIOD_CAPABLE_TABLES == {"fundamentals_quarterly"}

DEFAULT_LIMIT == 100

_getTableAlias(tableName) ==
  CASE tableName = "companies" -> "c"
    [] tableName = "fundamentals_quarterly" -> "fq"
    [] tableName = "price_history" -> "ph"
    [] tableName = "debt_profile" -> "dp"
    [] tableName = "cashflow_statements" -> "cs"
    [] tableName = "analyst_estimates" -> "ae"
    [] OTHER -> tableName

\* '$' + n
P(n) == "$" \o ToString(n)

\* context.requiredTables.add(table): a Set keeps insertion order
AddTable(ctx, table) ==
  IF table \in Range(ctx.requiredTables) THEN ctx
  ELSE [ctx EXCEPT !.requiredTables = Append(@, table)]

\* a variant of Push that forgets to advance the counter
PushSameCounter(ctx, v) ==
  [ctx EXCEPT !.params = Append(@, v)]

\* context.params.push(v); '$' + context.paramCounter++
Push(ctx, v) ==
  [ctx EXCEPT !.params = Append(@, v), !.paramCounter = @ + 1]

Ok(tokens, ctx) == [sql |-> tokens, ctx |-> ctx, err |-> ""]
Throw(msg, ctx) == [sql |-> <<>>, ctx |-> ctx, err |-> msg]

ComparisonOperators == {"<", ">", "<=", ">=", "=", "!="}

\* condition.value[i] (0-based in the code, 1-based here)
ValueAt(v, i) == IF v.k = "arr" /\ i <= Len(v.a) THEN v.a[i] ELSE Undef

\* the placeholders of an `in` list: '$a, $b, ...'
RECURSIVE InPlaceholders(_, _)
InPlaceholders(first, count) ==
  IF count = 0 THEN <<>>
  ELSE IF count = 1 THEN <<P(first)>>
  ELSE <<P(first), ",">> \o InPlaceholders(first + 1, count - 1)

RECURSIVE PushAll(_, _)
PushAll(ctx, values) ==
  IF values = <<>> THEN ctx ELSE PushAll(Push(ctx, Head(values)), Tail(values))

\* a variant of CompareSql that writes the value into the text
CompareSqlInlined(colRef, condition, ctx) ==
  Ok(<<colRef, condition.operator.s, Render(condition.value)>>, ctx)

\* _compileOperator, the comparison cases: the value is pushed, '$n' is emitted
CompareSql(colRef, condition, ctx) ==
  Ok(<<colRef, condition.operator.s, P(ctx.paramCounter)>>, Push(ctx, condition.value))

\* _compileOperator(colRef, condition, context)
_compileOperator(colRef, condition, ctx) ==
  LET op == condition.operator IN
  IF op.k = "str" /\ op.s \in ComparisonOperators THEN CompareSql(colRef, condition, ctx)
  ELSE IF IsStr(op, "between") THEN
    IF condition.value.k = "undef" THEN Throw("TypeError", ctx)
    ELSE Ok(<<colRef, "BETWEEN", P(ctx.paramCounter), "AND", P(ctx.paramCounter + 1)>>,
            Push(Push(ctx, ValueAt(condition.value, 1)), ValueAt(condition.value, 2)))
  ELSE IF IsStr(op, "in") THEN
    IF ~IsArray(condition.value) THEN Throw("TypeError", ctx)
    ELSE Ok(<<colRef, "IN", "(">>
              \o InPlaceholders(ctx.paramCounter, Len(condition.value.a))
              \o <<")">>,
            PushAll(ctx, condition.value.a))
  ELSE IF IsStr(op, "exists") THEN
    Ok(<<colRef, IF Truthy(condition.value) THEN "IS NOT NULL" ELSE "IS NULL">>, ctx)
  ELSE Throw("Unsupported operator", ctx)

\* _invertOperator(op): map[op] || op
_invertOperator(op) ==
  CASE op = ">" -> "<="
    [] op = "<" -> ">="
    [] op = ">=" -> "<"
    [] op = "<=" -> ">"
    [] op = "=" -> "!="
    [] op = "!=" -> "="
    [] OTHER -> op

\* the row source of a period subquery: the last N non-null rows of col
PeriodRows(col, nParam, subAlias) ==
  <<"SELECT", col, "FROM fundamentals_quarterly",
    "WHERE ticker = c.ticker AND", col, "IS NOT NULL",
    "ORDER BY id DESC LIMIT", nParam, ")", subAlias>>

\* const { n, aggregation = 'all' } = condition.period
PeriodN(p) == IF p.k = "period" THEN p.n ELSE Undef
PeriodAggregation(p) ==
  IF p.k = "period" /\ p.aggregation.k # "undef" THEN p.aggregation ELSE Str("all")

\* _compilePeriodCondition(condition, fieldInfo, context)
_compilePeriodCondition(condition, fieldInfo, ctx) ==
  LET n == PeriodN(condition.period)
      aggregation == PeriodAggregation(condition.period)
      col == fieldInfo.column
      op == Render(condition.operator)
      subAlias == "pq_" \o ToString(ctx.paramCounter)
      first == P(ctx.paramCounter)
      second == P(ctx.paramCounter + 1)
  IN
  IF IsStr(aggregation, "all") THEN
    Ok(<<"NOT EXISTS (", "SELECT 1 FROM (">>
         \o PeriodRows(col, second, subAlias)
         \o <<"WHERE", subAlias \o "." \o col, _invertOperator(op), first, ")">>,
       Push(Push(ctx, condition.value), n))
  ELSE IF IsStr(aggregation, "any") THEN
    Ok(<<"EXISTS (", "SELECT 1 FROM (">>
         \o PeriodRows(col, second, subAlias)
         \o <<"WHERE", subAlias \o "." \o col, op, first, ")">>,
       Push(Push(ctx, condition.value), n))
  ELSE IF IsStr(aggregation, "avg") \/ IsStr(aggregation, "sum") THEN
    Ok(<<"(", "SELECT", toUpperCase(aggregation.s), "(", subAlias \o "." \o col, ")", "FROM (">>
         \o PeriodRows(col, first, subAlias)
         \o <<")", op, second>>,
       Push(Push(ctx, n), condition.value))
  ELSE
    _compileOperator(_getTableAlias(fieldInfo.table) \o "." \o col, condition,
                     AddTable(ctx, fieldInfo.table))

\* the latest-non-null correlated subquery of _compileCondition
LatestNonNull(col) ==
  "(SELECT fq_sub." \o col \o " FROM fundamentals_quarterly fq_sub"
    \o " WHERE fq_sub.ticker = c.ticker AND fq_sub." \o col \o " IS NOT NULL"
    \o " ORDER BY fq_sub.id DESC LIMIT 1)"

\* _compileCondition(condition, context)
_compileCondition(condition, ctx) ==
  IF ~HasFieldInfo(condition.field) THEN Throw("Unknown field", ctx)
  ELSE
    LET fieldInfo == FIELD_TABLE_MAP[condition.field.s]
        alias == _getTableAlias(fieldInfo.table)
        colRef == alias \o "." \o fieldInfo.column
    IN
    IF Truthy(condition.value_is_field) THEN
      IF ~HasFieldInfo(condition.value) THEN Throw("Unknown comparison field", ctx)
      ELSE
        LET otherFieldInfo == FIELD_TABLE_MAP[condition.value.s] IN
          Ok(<<colRef, Render(condition.operator),
               _getTableAlias(otherFieldInfo.table) \o "." \o otherFieldInfo.column>>,
             AddTable(AddTable(ctx, fieldInfo.table), otherFieldInfo.table))
    ELSE IF condition.field.s \in {"sector", "exchange", "industry"} THEN
      _compileOperator(colRef, condition, AddTable(ctx, fieldInfo.table))
    ELSE IF /\ condition.field.s \in {"last_buyback_date", "next_earnings_date"}
            /\ IsStr(condition.operator, "exists") THEN
      Ok(<<colRef, IF Truthy(condition.value) THEN "IS NOT NULL" ELSE "IS NULL">>,
         AddTable(ctx, fieldInfo.table))
    ELSE IF fieldInfo.derived THEN
      _compileOperator(DerivedSql(alias), condition, AddTable(ctx, fieldInfo.table))
    ELSE IF Truthy(condition.period) /\ fieldInfo.table \in PERIOD_CAPABLE_TABLES THEN
      _compilePeriodCondition(condition, fieldInfo, ctx)
    ELSE IF fieldInfo.table = "fundamentals_quarterly" THEN
      _compileOperator(LatestNonNull(fieldInfo.column), condition,
                       AddTable(ctx, fieldInfo.table))
    ELSE
      _compileOperator(colRef, condition, AddTable(ctx, fieldInfo.table))

\* the compiler's own _isCondition(obj): obj && obj.field && obj.operator
CompilerIsCondition(obj) ==
  Truthy(obj) /\ Truthy(Get_field(obj)) /\ Truthy(Get_operator(obj))

\* a compiled fragment put between two tokens (an exception passes through)
Wrap(open, r, close) ==
  IF r.err # "" THEN r ELSE [r EXCEPT !.sql = <<open>> \o @ \o <<close>>]

\* compiled.join(' ' + joiner + ' '): one fragment followed by the rest
Joined(one, joiner, rest) ==
  IF rest.err # "" THEN rest ELSE Ok(one.sql \o <<joiner>> \o rest.sql, rest.ctx)

\* _compileFilter(filter, context) and _compileLogical(conditions, joiner, context)
RECURSIVE _compileFilter(_, _)
RECURSIVE CompileItem(_, _)
RECURSIVE CompileItems(_, _, _)
RECURSIVE CompileRest(_, _, _)
RECURSIVE _compileLogical(_, _, _)
RECURSIVE CompileItemOfNot(_, _)
\* the operand of NOT: a condition, or else a filter
CompileItemOfNot(child, ctx) ==
  IF CompilerIsCondition(child) THEN _compileCondition(child, ctx)
  ELSE _compileFilter(child, ctx)
\* the callback of conditions.map(...)
CompileItem(cond, ctx) ==
  IF CompilerIsCondition(cond) THEN _compileCondition(cond, ctx)
  ELSE Wrap("(", _compileFilter(cond, ctx), ")")
CompileRest(one, joiner, tail) ==
  IF one.err # "" \/ tail = <<>> THEN one
  ELSE Joined(one, joiner, CompileItems(tail, joiner, one.ctx))
CompileItems(conditions, joiner, ctx) ==
  IF conditions = <<>> THEN Ok(<<>>, ctx)
  ELSE CompileRest(CompileItem(Head(conditions), ctx), joiner, Tail(conditions))
_compileLogical(conditions, joiner, ctx) ==
  IF ~IsArray(conditions) THEN Throw("TypeError", ctx)
  ELSE IF joiner = "OR" THEN Wrap("(", CompileItems(conditions.a, joiner, ctx), ")")
  ELSE CompileItems(conditions.a, joiner, ctx)
_compileFilter(filter, ctx) ==
  IF ~Truthy(filter) THEN Ok(<<"1=1">>, ctx)
  ELSE IF Truthy(Get_and(filter)) THEN _compileLogical(filter.and, "AND", ctx)
  ELSE IF Truthy(Get_or(filter)) THEN _compileLogical(filter.or, "OR", ctx)
  ELSE IF Truthy(Get_not(filter)) THEN
    Wrap("NOT (", CompileItemOfNot(filter.not, ctx), ")")
  ELSE Ok(<<"1=1">>, ctx)

\* one LEFT JOIN LATERAL block of _generateJoins
LateralJoin(table, orderColumn) ==
  "LEFT JOIN LATERAL ( SELECT * FROM " \o table \o " WHERE ticker = c.ticker ORDER BY "
    \o orderColumn \o " DESC LIMIT 1 ) " \o _getTableAlias(table) \o " ON true"

\* _generateJoins(requiredTables)
_generateJoins(tables) ==
  (IF "fundamentals_quarterly" \in tables
     THEN <<LateralJoin("fundamentals_quarterly", "id")>> ELSE <<>>)
  \o (IF "price_history" \in tables
        THEN <<LateralJoin("price_history", "time")>> ELSE <<>>)
  \o (IF "debt_profile" \in tables
        THEN <<LateralJoin("debt_profile", "id")>> ELSE <<>>)
  \o (IF "cashflow_statements" \in tables
        THEN <<LateralJoin("cashflow_statements", "id")>> ELSE <<>>)
  \o (IF "analyst_estimates" \in tables
        THEN <<LateralJoin("analyst_estimates", "estimate_date")>> ELSE <<>>)

\* _compileSort(sort): one item
SortItemSql(item) ==
  LET fi == FIELD_TABLE_MAP[item.field.s]
      dir == toUpperCase(Render(OrElse(item.direction, Str("ASC"))))
  IN <<_getTableAlias(fi.table) \o "." \o fi.column, dir, "NULLS LAST">>

RECURSIVE SortItemsSql(_)
SortItemsSql(items) ==
  IF items = <<>> THEN <<>>
  ELSE IF Len(items) = 1 THEN SortItemSql(Head(items))
  ELSE SortItemSql(Head(items)) \o <<",">> \o SortItemsSql(Tail(items))

\* _compileSort(sort): throws when an item's field has no FIELD_TABLE_MAP entry
_compileSort(sort) ==
  LET items == IF IsArray(sort) THEN sort.a ELSE <<sort>> IN
    IF \E i \in DOMAIN items : items[i].k # "sortitem" \/ ~HasFieldInfo(items[i].field)
      THEN [sql |-> <<>>, err |-> "TypeError"]
      ELSE [sql |-> SortItemsSql(items), err |-> ""]

\* the _fq(col) helper of compile(): one projection line
ProjectFq(col) ==
  "COALESCE(fq." \o col \o ", (SELECT _f." \o col
    \o " FROM fundamentals_quarterly _f WHERE _f.ticker = c.ticker AND _f."
    \o col \o " IS NOT NULL ORDER BY _f.id DESC LIMIT 1)) AS " \o col \o ","

\* the fixed SELECT list of compile()
Projection ==
  <<"SELECT DISTINCT", "c.ticker,", "c.name,", "c.sector,", "c.industry,",
    "c.exchange,", "c.market_cap,", "c.promoter_holding,", "c.next_earnings_date,",
    "c.last_buyback_date,",
    ProjectFq("pe_ratio"), ProjectFq("pb_ratio"), ProjectFq("roe"), ProjectFq("roa"),
    ProjectFq("revenue"), ProjectFq("net_income"), ProjectFq("eps"),
    ProjectFq("operating_margin"), ProjectFq("ebitda_margin"), ProjectFq("peg_ratio"),
    ProjectFq("ebitda"), ProjectFq("debt_to_equity"), ProjectFq("current_ratio"),
    ProjectFq("total_debt"), ProjectFq("total_assets"), ProjectFq("free_cash_flow"),
    ProjectFq("operating_cash_flow"), ProjectFq("revenue_growth_yoy"),
    ProjectFq("ebitda_growth_yoy"),
    "ph.close AS current_price,", "ph.open,", "ph.high,", "ph.low,", "ph.volume",
    "FROM companies c">>

\* what compile() does once the filter and the sort are compiled
Failed(msg) == [err |-> msg, sql |-> <<>>, params |-> <<>>, requiredTables |-> <<>>]
Assemble(where, orderBy, limit) ==
  LET ctx == AddTable(AddTable(where.ctx, "price_history"), "fundamentals_quarterly") IN
  IF where.err # "" THEN Failed(where.err)
  ELSE IF orderBy.err # "" THEN Failed(orderBy.err)
  ELSE
    [err |-> "",
     sql |-> Projection \o _generateJoins(Range(ctx.requiredTables))
               \o <<"WHERE">> \o where.sql
               \o <<"ORDER BY">> \o orderBy.sql
               \o <<"LIMIT", P(ctx.paramCounter)>>,
     params |-> Append(ctx.params, limit),
     requiredTables |-> ctx.requiredTables]

\* compile(dsl): { sql, params, requiredTables }, or the exception it throws
compile(d) ==
  Assemble(_compileFilter(d.filter,
                          [params |-> <<>>, paramCounter |-> 1,
                           requiredTables |-> <<"companies">>]),
           IF Truthy(d.sort) THEN _compileSort(d.sort)
           ELSE [sql |-> <<"c.market_cap DESC NULLS LAST">>, err |-> ""],
           OrElse(d.limit, Num(DEFAULT_LIMIT)))

(***************************************************************************)
(* Requests: the DSL trees the pipeline is run on                          *)
(***************************************************************************)
MaxIn == 3       \* longest `in` list
MaxDepth == 3    \* deepest chain of nested logical nodes around a condition
BigN == 50       \* a period length far beyond the allowed range

BlankNode ==
  [k |-> "node", field |-> Undef, operator |-> Undef, value |-> Undef,
   value_is_field |-> Undef, period |-> Undef, timeframe |-> Undef,
   and |-> Undef, or |-> Undef, not |-> Undef, other |-> FALSE]

Cond(f, op, v) == [BlankNode EXCEPT !.field = Str(f), !.operator = Str(op), !.value = v]
CrossCond(f, op, g) ==
  [BlankNode EXCEPT !.field = Str(f), !.operator = Str(op), !.value = g,
                    !.value_is_field = Bool(TRUE)]
Period(type, n, agg) == [k |-> "period", type |-> type, n |-> n, aggregation |-> agg]
Timeframe(n, agg) == [k |-> "timeframe", period |-> n, aggregation |-> agg]
WithPeriod(c, p) == [c EXCEPT !.period = p]
WithTimeframe(c, t) == [c EXCEPT !.timeframe = t]

AndOf(items) == [BlankNode EXCEPT !.and = Arr(items)]
OrOf(items) == [BlankNode EXCEPT !.or = Arr(items)]
NotOf(child) == [BlankNode EXCEPT !.not = child]

SortItem(f, dir) == [k |-> "sortitem", field |-> f, direction |-> dir]
Request(f, s, l) == [k |-> "dsl", filter |-> f, sort |-> s, limit |-> l]

\* literals a user can send: numbers, strings (one of them hostile), booleans
HostileText == "x'; DROP TABLE companies; --"
NumberLiterals == {Num(5), Num(50)}
TextLiterals == {Str("IT"), Str(HostileText)}
ListLiterals ==
  {Arr([i \in 1..len |-> Num(5 + i)]) : len \in 0..MaxIn} \cup {Arr(<<Str("IT"), Str("Pharma")>>)}

RepresentativeFields ==
  {"pe_ratio", "close", "sector", "debt_to_fcf", "cfo", "last_buyback_date",
   "price_target_avg", "market_cap"}
FieldNames == RepresentativeFields \cup {"evil_column"}
OperatorNames == ALLOWED_OPERATORS \cup {"LIKE", "not_in"}

\* scalar comparisons
ComparisonConds ==
  {Cond(f, op, v) : f \in FieldNames, op \in ComparisonOperators, v \in NumberLiterals}
  \cup {Cond("sector", op, v) : op \in ComparisonOperators, v \in TextLiterals}

\* every operator against every shape of value
ShapeConds ==
  {Cond(f, op, v) : f \in {"pe_ratio", "sector", "last_buyback_date"},
                    op \in OperatorNames \ ComparisonOperators,
                    v \in ListLiterals \cup {Num(5), Str("IT"), Bool(TRUE), Bool(FALSE), Undef}}

\* conditions that are missing a key, or carry keys only
BrokenConds ==
  {[BlankNode EXCEPT !.field = Str("pe_ratio"), !.value = Num(5)],
   [BlankNode EXCEPT !.operator = Str("<"), !.value = Num(5)],
   [BlankNode EXCEPT !.other = TRUE],
   [Cond("pe_ratio", "<", Num(5)) EXCEPT !.field = Str("")],
   [Cond("pe_ratio", "<", Num(5)) EXCEPT !.field = Num(7)]}

\* cross-field comparisons
CrossConds ==
  {CrossCond(f, op, g) :
     f \in {"close", "debt_to_fcf", "pe_ratio", "evil_column"},
     op \in {"<", ">=", "between", "exists", "LIKE"},
     g \in {Str("price_target_avg"), Str("debt_to_fcf"), Str("cfo"),
            Str("evil_column"), Str(HostileText), Num(5)}}

PeriodLengths ==
  {Num(0), Num(MinPeriodN), Num(4), Num(MaxPeriodN), Num(MaxPeriodN + 1), Num(BigN),
   Str("4"), Undef}
Aggregations ==
  {Undef, Str("all"), Str("any"), Str("avg"), Str("sum"), Str("latest"),
   Str("min"), Str("evil_agg")}

\* conditions with a period
PeriodConds ==
  {WithPeriod(Cond("net_income", op, Num(5)), Period(Str("last_n_quarters"), Num(4), agg)) :
     op \in OperatorNames, agg \in Aggregations}
  \cup
  {WithPeriod(Cond(f, ">", Num(5)), Period(Str("last_n_quarters"), n, agg)) :
     f \in {"net_income", "close", "debt_to_fcf", "sector"},
     n \in PeriodLengths, agg \in {Undef, Str("all"), Str("avg"), Str("latest")}}
  \cup
  {WithPeriod(Cond("net_income", ">", Num(5)), p) :
     p \in {Period(Str("last_n_years"), Num(4), Str("all")),
            Period(Undef, Num(4), Str("all")),
            Str("last 4 quarters")}}
  \cup
  {WithPeriod(Cond("net_income", op, v), Period(Str("last_n_quarters"), Num(4), agg)) :
     op \in {"in", "between"}, v \in ListLiterals, agg \in {Str("all"), Str("sum")}}

\* conditions with the legacy timeframe
TimeframeConds ==
  {WithTimeframe(Cond(f, ">", Num(5)), Timeframe(n, agg)) :
     f \in {"net_income", "close"},
     n \in PeriodLengths, agg \in Aggregations}
  \cup
  {WithTimeframe(WithPeriod(Cond("net_income", ">", Num(5)), p), Timeframe(Num(BigN), Str("any"))) :
     p \in {Period(Str("last_n_quarters"), Num(4), Str("all")),
            Period(Str("last_n_quarters"), Num(BigN), Str("all"))}}

Conds == ComparisonConds \cup ShapeConds \cup BrokenConds \cup CrossConds
           \cup PeriodConds \cup TimeframeConds

\* a few conditions to combine with each other
CoreConds ==
  {Cond("pe_ratio", op, v) : op \in ComparisonOperators, v \in NumberLiterals}
  \cup {Cond("sector", "=", Str("IT")), Cond("evil_column", "<", Num(5)),
        Cond("last_buyback_date", "exists", Bool(TRUE))}

\* one logical node around one condition
SingleFilters ==
  {AndOf(<<c>>) : c \in Conds} \cup {OrOf(<<c>>) : c \in Conds}
  \cup {NotOf(Arr(<<c>>)) : c \in Conds} \cup {NotOf(c) : c \in Conds}

\* two conditions under one logical operator
PairFilters ==
  {AndOf(<<c1, c2>>) : c1 \in CoreConds, c2 \in CoreConds}
  \cup {OrOf(<<c1, c2>>) : c1 \in CoreConds, c2 \in CoreConds}
  \cup {NotOf(Arr(<<c1, c2>>)) : c1 \in CoreConds, c2 \in CoreConds}

FewConds ==
  {Cond("pe_ratio", "<", Num(5)), Cond("sector", "=", Str(HostileText)),
   Cond("evil_column", "<", Num(5))}

\* a node that carries more than one of and / or / not
MultiKeyFilters ==
  {[BlankNode EXCEPT !.and = a, !.or = o, !.not = n] :
     a \in {Undef} \cup {Arr(<<c>>) : c \in FewConds},
     o \in {Undef} \cup {Arr(<<c>>) : c \in FewConds},
     n \in {Undef} \cup {Arr(<<c>>) : c \in FewConds}
           \cup {c : c \in FewConds}}

\* logical nodes nested to a given depth
RECURSIVE NestedFilters(_)
NestedFilters(depth) ==
  IF depth = 1 THEN {AndOf(<<c>>) : c \in FewConds} \cup {OrOf(<<c>>) : c \in FewConds}
  ELSE LET inner == NestedFilters(depth - 1) IN
    {AndOf(<<f>>) : f \in inner} \cup {OrOf(<<Cond("close", ">", Num(50)), f>>) : f \in inner}
    \cup {NotOf(Arr(<<f>>)) : f \in inner} \cup {NotOf(f) : f \in inner}

\* things that are not a filter tree at all
DegenerateFilters ==
  {BlankNode, Undef, Arr(<<>>), Arr(<<Cond("pe_ratio", "<", Num(5))>>), Str("pe < 5"),
   Num(0), [BlankNode EXCEPT !.other = TRUE],
   [BlankNode EXCEPT !.and = Cond("pe_ratio", "<", Num(5))],
   [BlankNode EXCEPT !.or = Str("pe < 5")],
   AndOf(<<>>), OrOf(<<>>), NotOf(Arr(<<>>)),
   AndOf(<<Num(5)>>), AndOf(<<Str("pe < 5")>>), AndOf(<<Arr(<<>>)>>), AndOf(<<BlankNode>>),
   AndOf(<<Cond("pe_ratio", "<", Num(5)), Undef>>)}

\* one tree with every kind of condition the compiler knows
MixedFilter ==
  AndOf(<<Cond("pe_ratio", "<", Num(5)),
          Cond("market_cap", "between", Arr(<<Num(5), Num(50)>>)),
          OrOf(<<Cond("sector", "in", Arr(<<Str("IT"), Str("Pharma")>>)),
                 Cond("last_buyback_date", "exists", Bool(TRUE)),
                 CrossCond("close", "<", Str("price_target_avg"))>>),
          WithPeriod(Cond("net_income", ">", Num(5)),
                     Period(Str("last_n_quarters"), Num(4), Str("all"))),
          WithPeriod(Cond("revenue", ">", Num(50)),
                     Period(Str("last_n_quarters"), Num(4), Str("avg"))),
          NotOf(Arr(<<Cond("cfo", "<", Num(5))>>))>>)

\* validation_rules.md, Rule 7.4: maximum nesting depth
MaxNesting == 5

\* a chain of logical nodes, one inside the other
RECURSIVE DeepChain(_)
DeepChain(depth) ==
  IF depth = 1 THEN AndOf(<<Cond("pe_ratio", "<", Num(5))>>)
  ELSE IF depth % 2 = 0 THEN OrOf(<<Cond("close", ">", Num(50)), DeepChain(depth - 1)>>)
  ELSE AndOf(<<DeepChain(depth - 1)>>)

\* trees at the nesting limit and one level beyond it
DeepFilters == {DeepChain(MaxNesting), DeepChain(MaxNesting + 1)}

Filters ==
  SingleFilters \cup PairFilters \cup MultiKeyFilters \cup {MixedFilter}
    \cup UNION {NestedFilters(d) : d \in 1..MaxDepth} \cup DegenerateFilters
    \cup DeepFilters

Sorts ==
  {Undef, Arr(<<>>), Str("pe_ratio"), SortItem(Str("pe_ratio"), Str("asc"))}
  \cup {Arr(<<SortItem(f, dir)>>) :
          f \in {Str("market_cap"), Str("pe_ratio"), Str("cfo"), Str("debt_to_fcf"),
                 Str("evil_column"), Undef},
          dir \in {Undef, Str("asc"), Str("DESC"), Str("Desc"), Str("sideways")}}
  \cup {Arr(<<SortItem(Str("cfo"), Str("desc")), SortItem(Str("close"), Undef)>>)}

Limits ==
  {Undef, Num(0), Num(MinLimit), Num(50), Num(MaxLimit), Num(MaxLimit + 1), Str("10")}

Requests ==
  {Request(f, Undef, Undef) : f \in Filters}
  \cup {Request(f, s, l) :
          f \in {AndOf(<<Cond("pe_ratio", "<", Num(5))>>),
                 AndOf(<<CrossCond("close", "<", Str("price_target_avg"))>>),
                 MixedFilter, BlankNode},
          s \in Sorts, l \in Limits}

(***************************************************************************)
(* The screener pipeline: validate(dsl), then compile(dsl) when valid      *)
(***************************************************************************)
AlertsIdle ==
  /\ now = 0
  /\ alerts = <<>>
  /\ notifications = <<>>
  /\ isRunning = FALSE
  /\ timer = 0
  /\ timersActive = {}
  /\ cycles = <<>>
  /\ started = 0
  /\ data = [quote |-> Null, metadata |-> Null, fundamentals |-> Null]
  /\ triggered = "pending"

InitDsl ==
  /\ input \in Requests
  /\ dsl = input
  /\ phase = "received"
  /\ errors = <<>>
  /\ sql = <<>>
  /\ params = <<>>
  /\ requiredTables = <<>>
  /\ rows = <<>>
  /\ selected = "pending"
  /\ AlertsIdle

\* validator.validate(dsl): errors collected, conditions normalised in place
Validate ==
  /\ phase = "received"
  /\ errors' = validate(dsl)
  /\ dsl' = Normalise(dsl)
  /\ phase' = IF validate(dsl) = <<>> THEN "accepted" ELSE "rejected"
  /\ UNCHANGED <<input, sql, params, requiredTables, rows, selected>>
  /\ UNCHANGED alertVars
  /\ UNCHANGED evalVars

\* the pipeline keeps what compile() returned, or notes that it threw
Returned(r) ==
  /\ phase' = IF r.err = "" THEN "compiled" ELSE "threw"
  /\ sql' = r.sql
  /\ params' = r.params
  /\ requiredTables' = r.requiredTables

\* compiler.compile(sanitizedDSL): only validated DSL passes to the compiler
Compile ==
  /\ phase = "accepted"
  /\ Returned(compile(dsl))
  /\ UNCHANGED <<input, dsl, errors, rows, selected>>
  /\ UNCHANGED alertVars
  /\ UNCHANGED evalVars

NextDsl == Validate \/ Compile

SpecDsl == InitDsl /\ [][NextDsl]_vars

(***************************************************************************)
(* validator.service.js: AlertProcessor, and the tables it works on        *)
(***************************************************************************)
\* INTERVAL '1 day' in units of checkInterval (60000 ms): 86400000 / 60000
DAY == 1440

MaxCycles == 2     \* processAlerts() invocations in flight at once
MaxTicks == 2      \* ticks of the clock that are followed
MaxStarted == 3    \* processAlerts() invocations followed in all

FirstInstant == DAY + 1
LastInstant == FirstInstant + MaxTicks

Date(t) == [k |-> "date", t |-> t]

\* alert.condition_json
NoCondition ==
  [operator |-> Undef, value |-> Undef, threshold_percent |-> Undef,
   days_before |-> Undef, days_lookback |-> Undef, fundamental_metric |-> Undef,
   fundamental_operator |-> Undef, fundamental_value |-> Undef,
   metric |-> Undef, event_type |-> Undef]

\* a row of alert_subscriptions
Row(id, ticker, type, condition, active, last) ==
  [id |-> id, ticker |-> ticker, alert_type |-> type, condition_json |-> condition,
   is_active |-> active, last_triggered |-> last, trigger_count |-> 0,
   last_evaluated |-> Null]

PriceAbove50 == [NoCondition EXCEPT !.operator = Str(">"), !.value = Num(50)]
PercentOnly == [NoCondition EXCEPT !.threshold_percent = Num(10)]
EarningsIn3Days == [NoCondition EXCEPT !.days_before = Num(3)]
BuybackIn3Days == [NoCondition EXCEPT !.days_lookback = Num(3)]
PeBelow15 ==
  [NoCondition EXCEPT !.fundamental_metric = Str("pe_ratio"),
                      !.fundamental_operator = Str("below"), !.fundamental_value = Num(15)]
PeLessThan15 ==
  [NoCondition EXCEPT !.fundamental_metric = Str("pe_ratio"),
                      !.fundamental_operator = Str("<"), !.fundamental_value = Num(15)]

\* last_triggered of a row at the start: never, more than a day ago, a day ago
LastTriggeredValues == {Null, Num(0), Num(1)}

\* the subscriptions the table can hold at the start
SecondRows ==
  {Row(2, Str("TCS"), "price_threshold", PriceAbove50, TRUE, Null),
   Row(2, Str("INFY"), "price_threshold", PriceAbove50, TRUE, Null),
   Row(2, Null, "price_threshold", PriceAbove50, TRUE, Null),
   Row(2, Str("TCS"), "price_vs_analyst", NoCondition, TRUE, Null),
   Row(2, Str("TCS"), "price_threshold", PriceAbove50, FALSE, Null)}
Portfolios ==
  {<<Row(1, Str("TCS"), "price_threshold", PriceAbove50, TRUE, last)>> :
     last \in LastTriggeredValues}
  \cup
  {<<Row(1, Str("TCS"), "price_threshold", PriceAbove50, TRUE, Null), second>> :
     second \in SecondRows}
  \cup
  {<<Row(1, Str("INFY"), "price_below_buy_price", PercentOnly, TRUE, Null)>>,
   <<Row(1, Str("INFY"), "earnings_upcoming", EarningsIn3Days, TRUE, Null)>>,
   <<Row(1, Str("INFY"), "buyback_announced", BuybackIn3Days, TRUE, Null)>>,
   <<Row(1, Str("INFY"), "fundamental_condition", PeBelow15, TRUE, Null)>>,
   <<Row(1, Str("INFY"), "fundamental_condition", PeLessThan15, TRUE, Null)>>}

\* what companyService returns for a ticker (null when the call failed)
Quote(price) == [k |-> "quote", price |-> price]
Metadata(earnings, buyback) ==
  [k |-> "metadata", next_earnings_date |-> earnings, last_buyback_date |-> buyback]
Fundamentals(pe) == [k |-> "fundamentals", pe_ratio |-> pe]
Bundle(quote, metadata, fundamentals) ==
  [quote |-> quote, metadata |-> metadata, fundamentals |-> fundamentals]

Bundles ==
  {Bundle(Null, Null, Null),
   Bundle(Quote(40), Null, Null),
   Bundle(Quote(60), Null, Null),
   Bundle(Quote(60), Metadata(Date(FirstInstant - 1), Date(FirstInstant - 1)),
          Fundamentals(Num(10))),
   Bundle(Null, Metadata(Date(FirstInstant + 2 * DAY), Date(FirstInstant - 2 * DAY)), Null),
   Bundle(Null, Metadata(Null, Null), Fundamentals(Null)),
   Bundle(Null, Null, Fundamentals(Num(20)))}

\* Number(v)
NaN == [k |-> "nan"]
Number(v) ==
  CASE v.k = "num" -> v
    [] v.k = "null" -> Num(0)
    [] OTHER -> NaN

\* fundamentals[metric]
Metric(fundamentals, metric) ==
  IF IsStr(metric, "pe_ratio") THEN fundamentals.pe_ratio ELSE Undef

\* Math.ceil(a / b) and Math.floor(a / b) for b > 0
Ceil(a, b) == -((-a) \div b)
Floor(a, b) == a \div b

\* checkPriceThreshold(condition, currentPrice)
checkPriceThreshold(condition, currentPrice) ==
  IF Truthy(condition.threshold_percent) /\ ~Truthy(condition.value) THEN FALSE
  ELSE IF ~Truthy(condition.value) THEN FALSE
  ELSE CASE IsStr(condition.operator, ">") -> currentPrice > condition.value.n
         [] IsStr(condition.operator, ">=") -> currentPrice >= condition.value.n
         [] IsStr(condition.operator, "<") -> currentPrice < condition.value.n
         [] IsStr(condition.operator, "<=") -> currentPrice <= condition.value.n
         [] IsStr(condition.operator, "=") -> currentPrice = condition.value.n
         [] OTHER -> FALSE

\* checkEarningsUpcoming(condition, nextEarningsDate), today being t
checkEarningsUpcoming(condition, nextEarningsDate, t) ==
  IF ~Truthy(condition.days_before) THEN FALSE
  ELSE /\ Ceil(nextEarningsDate.t - t, DAY) >= 0
       /\ Ceil(nextEarningsDate.t - t, DAY) <= condition.days_before.n

\* checkBuybackAnnounced(condition, lastBuybackDate), today being t
checkBuybackAnnounced(condition, lastBuybackDate, t) ==
  IF ~Truthy(condition.days_lookback) THEN FALSE
  ELSE /\ Floor(t - lastBuybackDate.t, DAY) >= 0
       /\ Floor(t - lastBuybackDate.t, DAY) <= condition.days_lookback.n

\* the switch of checkFundamentalCondition
CompareFundamental(operator, actualValue, targetValue) ==
  IF actualValue = NaN \/ targetValue = NaN THEN FALSE
  ELSE CASE IsStr(operator, "above") -> actualValue.n > targetValue.n
         [] IsStr(operator, "below") -> actualValue.n < targetValue.n
         [] IsStr(operator, "equals") -> actualValue.n = targetValue.n
         [] OTHER -> FALSE

\* checkFundamentalCondition(condition, fundamentals)
checkFundamentalCondition(condition, fundamentals) ==
  IF ~Truthy(condition.fundamental_metric) \/ ~Truthy(condition.fundamental_value)
     \/ ~Truthy(fundamentals) THEN FALSE
  ELSE CompareFundamental(condition.fundamental_operator,
                          Number(Metric(fundamentals, condition.fundamental_metric)),
                          Number(condition.fundamental_value))

\* a switch whose unmatched alert types count as triggered
TriggeredByDefault(alert, quote, metadata, fundamentals, t) ==
  CASE alert.alert_type \in {"price_threshold", "price_below_buy_price"} ->
         Truthy(quote) /\ checkPriceThreshold(alert.condition_json, quote.price)
    [] alert.alert_type = "earnings_upcoming" ->
         /\ Truthy(metadata) /\ Truthy(metadata.next_earnings_date)
         /\ checkEarningsUpcoming(alert.condition_json, metadata.next_earnings_date, t)
    [] alert.alert_type = "buyback_announced" ->
         /\ Truthy(metadata) /\ Truthy(metadata.last_buyback_date)
         /\ checkBuybackAnnounced(alert.condition_json, metadata.last_buyback_date, t)
    [] alert.alert_type = "fundamental_condition" ->
         Truthy(fundamentals) /\ checkFundamentalCondition(alert.condition_json, fundamentals)
    [] OTHER -> TRUE

\* evaluateAlert: the value of `triggered` after the switch
Triggered(alert, quote, metadata, fundamentals, t) ==
  CASE alert.alert_type \in {"price_threshold", "price_below_buy_price"} ->
         Truthy(quote) /\ checkPriceThreshold(alert.condition_json, quote.price)
    [] alert.alert_type = "earnings_upcoming" ->
         /\ Truthy(metadata) /\ Truthy(metadata.next_earnings_date)
         /\ checkEarningsUpcoming(alert.condition_json, metadata.next_earnings_date, t)
    [] alert.alert_type = "buyback_announced" ->
         /\ Truthy(metadata) /\ Truthy(metadata.last_buyback_date)
         /\ checkBuybackAnnounced(alert.condition_json, metadata.last_buyback_date, t)
    [] alert.alert_type = "fundamental_condition" ->
         Truthy(fundamentals) /\ checkFundamentalCondition(alert.condition_json, fundamentals)
    [] OTHER -> FALSE

\* WHERE is_active = true AND
\*   (last_triggered IS NULL OR last_triggered < NOW() - INTERVAL '1 day')
Eligible(row, t) ==
  row.is_active /\ (row.last_triggered = Null \/ row.last_triggered.n < t - DAY)

\* result.rows of the query, as ids in table order
Ids(table) == [i \in 1..Len(table) |-> i]
RowsOfQuery(table, t) == SelectSeq(Ids(table), LAMBDA id : Eligible(table[id], t))

\* alerts.reduce(...): rows grouped by ticker, rows without a ticker left out
AddToGroup(acc, ticker, id) ==
  IF ~Truthy(ticker) THEN acc
  ELSE IF \E g \in DOMAIN acc : acc[g].ticker = ticker
    THEN [g \in DOMAIN acc |->
            IF acc[g].ticker = ticker THEN [acc[g] EXCEPT !.ids = Append(@, id)] ELSE acc[g]]
  ELSE Append(acc, [ticker |-> ticker, ids |-> <<id>>])
RECURSIVE GroupByTicker(_, _, _)
GroupByTicker(table, ids, acc) ==
  IF ids = <<>> THEN acc
  ELSE GroupByTicker(table, Tail(ids), AddToGroup(acc, table[Head(ids)].ticker, Head(ids)))

\* a processAlerts() invocation suspended at an await
\*   pc: "query" (line 301) | "fetch" (323) | "notify" (489) | "update" (506)
Cycle(pc, groups, pending, quote, metadata, fundamentals) ==
  [pc |-> pc, groups |-> groups, pending |-> pending,
   quote |-> quote, metadata |-> metadata, fundamentals |-> fundamentals]
Finished == [pc |-> "done"]
NewCycle == Cycle("query", <<>>, <<>>, Null, Null, Null)

\* for (const [ticker, tickerAlerts] of ...): the next ticker's data is asked for
NextTicker(groups) ==
  IF groups = <<>> THEN Finished
  ELSE Cycle("fetch", groups, <<>>, Null, Null, Null)

\* for (const alert of tickerAlerts): alerts that do not trigger are passed
\* over; the first that does suspends the invocation in createNotification
RECURSIVE EvaluateFrom(_, _, _, _)
EvaluateFrom(c, table, pending, t) ==
  IF pending = <<>> THEN NextTicker(Tail(c.groups))
  ELSE IF Triggered(table[Head(pending)], c.quote, c.metadata, c.fundamentals, t)
    THEN [c EXCEPT !.pc = "notify", !.pending = pending]
  ELSE EvaluateFrom(c, table, Tail(pending), t)

\* the invocations in flight, the i-th one replaced or, when finished, dropped
Resume(cs, i, c) ==
  IF c = Finished
    THEN [j \in 1..(Len(cs) - 1) |-> IF j < i THEN cs[j] ELSE cs[j + 1]]
    ELSE [cs EXCEPT ![i] = c]

\* a call of processAlerts(): it runs up to its first await
CallProcessAlerts ==
  /\ cycles' = Append(cycles, NewCycle)
  /\ started' = started + 1

\* start(), the processor already running: a warning and nothing else
StartAgain ==
  /\ isRunning
  /\ UNCHANGED vars

\* setInterval(...): a handle no live timer has
NewTimer == CHOOSE t \in 1..(Cardinality(timersActive) + 1) : t \notin timersActive

\* start() without its `if (this.isRunning) return`
StartUnguarded ==
  /\ Len(cycles) < MaxCycles /\ started < MaxStarted
  /\ isRunning' = TRUE
  /\ CallProcessAlerts
  /\ timer' = NewTimer
  /\ timersActive' = timersActive \cup {NewTimer}
  /\ UNCHANGED <<now, alerts, notifications>>
  /\ UNCHANGED dslVars
  /\ UNCHANGED evalVars

\* start()
Start ==
  /\ ~isRunning
  /\ Len(cycles) < MaxCycles /\ started < MaxStarted
  /\ isRunning' = TRUE
  /\ CallProcessAlerts
  /\ timer' = NewTimer
  /\ timersActive' = timersActive \cup {NewTimer}
  /\ UNCHANGED <<now, alerts, notifications>>
  /\ UNCHANGED dslVars
  /\ UNCHANGED evalVars

\* stop()
Stop ==
  /\ timersActive' = IF timer # 0 THEN timersActive \ {timer} ELSE timersActive
  /\ timer' = 0
  /\ isRunning' = FALSE
  /\ UNCHANGED <<now, alerts, notifications, cycles, started>>
  /\ UNCHANGED dslVars
  /\ UNCHANGED evalVars

\* the setInterval callback, checkInterval after the previous one
TimerFires ==
  /\ timersActive # {}
  /\ now < LastInstant
  /\ Len(cycles) < MaxCycles /\ started < MaxStarted
  /\ now' = now + 1
  /\ CallProcessAlerts
  /\ UNCHANGED <<alerts, notifications, isRunning, timer, timersActive>>
  /\ UNCHANGED dslVars
  /\ UNCHANGED evalVars

\* time passing while no timer is set
Elapse ==
  /\ timersActive = {}
  /\ now < LastInstant
  /\ now' = now + 1
  /\ UNCHANGED <<alerts, notifications, isRunning, timer, timersActive, cycles, started>>
  /\ UNCHANGED dslVars
  /\ UNCHANGED evalVars

\* processAlerts resumes from `await db.query(query)`
QueryReturns(i, ok) ==
  /\ cycles[i].pc = "query"
  /\ cycles' = Resume(cycles, i,
       IF ~ok \/ RowsOfQuery(alerts, now) = <<>> THEN Finished
       ELSE NextTicker(GroupByTicker(alerts, RowsOfQuery(alerts, now), <<>>)))
  /\ UNCHANGED <<now, alerts, notifications, isRunning, timer, timersActive, started>>
  /\ UNCHANGED dslVars
  /\ UNCHANGED evalVars

\* processAlerts resumes from `await Promise.all([...])`
FetchReturns(i, quote, metadata, fundamentals) ==
  /\ cycles[i].pc = "fetch"
  /\ cycles' = Resume(cycles, i,
       IF ~Truthy(quote) /\ ~Truthy(metadata) /\ ~Truthy(fundamentals)
         THEN NextTicker(Tail(cycles[i].groups))
       ELSE EvaluateFrom(Cycle("fetch", cycles[i].groups, <<>>, quote, metadata, fundamentals),
                         alerts, Head(cycles[i].groups).ids, now))
  /\ UNCHANGED <<now, alerts, notifications, isRunning, timer, timersActive, started>>
  /\ UNCHANGED dslVars
  /\ UNCHANGED evalVars

\* triggerAlert resumes from `await notificationService.createNotification(...)`;
\* when that throws, evaluateAlert catches and the loop goes on
NotifyReturns(i, ok) ==
  /\ cycles[i].pc = "notify"
  /\ notifications' =
       IF ok THEN Append(notifications,
                         [alert_id |-> Head(cycles[i].pending), triggered_at |-> now])
       ELSE notifications
  /\ cycles' = Resume(cycles, i,
       IF ok THEN [cycles[i] EXCEPT !.pc = "update"]
       ELSE EvaluateFrom(cycles[i], alerts, Tail(cycles[i].pending), now))
  /\ UNCHANGED <<now, alerts, isRunning, timer, timersActive, started>>
  /\ UNCHANGED dslVars
  /\ UNCHANGED evalVars

\* UPDATE alert_subscriptions SET last_triggered = NOW(), ... WHERE id = $1
Updated(table, id, t) ==
  [table EXCEPT ![id].last_triggered = Num(t),
                ![id].trigger_count = @ + 1,
                ![id].last_evaluated = Num(t)]

\* triggerAlert resumes from `await db.query(updateQuery, [alert.id])`
\* an update whose exception escapes evaluateAlert and ends the cycle
UpdateReturnsAborting(i, ok) ==
  /\ cycles[i].pc = "update"
  /\ alerts' = IF ok THEN Updated(alerts, Head(cycles[i].pending), now) ELSE alerts
  /\ cycles' = Resume(cycles, i,
       IF ok THEN EvaluateFrom(cycles[i], alerts, Tail(cycles[i].pending), now)
       ELSE Finished)
  /\ UNCHANGED <<now, notifications, isRunning, timer, timersActive, started>>
  /\ UNCHANGED dslVars
  /\ UNCHANGED evalVars

UpdateReturns(i, ok) ==
  /\ cycles[i].pc = "update"
  /\ alerts' = IF ok THEN Updated(alerts, Head(cycles[i].pending), now) ELSE alerts
  /\ cycles' = Resume(cycles, i,
       EvaluateFrom(cycles[i], alerts, Tail(cycles[i].pending), now))
  /\ UNCHANGED <<now, notifications, isRunning, timer, timersActive, started>>
  /\ UNCHANGED dslVars
  /\ UNCHANGED evalVars

DslIdle ==
  /\ input = Undef
  /\ dsl = Undef
  /\ phase = "idle"
  /\ errors = <<>>
  /\ sql = <<>>
  /\ params = <<>>
  /\ requiredTables = <<>>
  /\ rows = <<>>
  /\ selected = "pending"

\* the state after `new AlertProcessor()`, the table holding some subscriptions
InitAlert ==
  /\ DslIdle
  /\ now = FirstInstant
  /\ alerts \in Portfolios
  /\ notifications = <<>>
  /\ isRunning = FALSE
  /\ timer = 0
  /\ timersActive = {}
  /\ cycles = <<>>
  /\ started = 0
  /\ data = [quote |-> Null, metadata |-> Null, fundamentals |-> Null]
  /\ triggered = "pending"

NextAlert ==
  \/ Start
  \/ StartAgain
  \/ Stop
  \/ TimerFires
  \/ Elapse
  \/ \E i \in DOMAIN cycles, ok \in BOOLEAN : QueryReturns(i, ok)
  \/ \E i \in DOMAIN cycles, b \in Bundles :
        FetchReturns(i, b.quote, b.metadata, b.fundamentals)
  \/ \E i \in DOMAIN cycles, ok \in BOOLEAN : NotifyReturns(i, ok)
  \/ \E i \in DOMAIN cycles, ok \in BOOLEAN : UpdateReturns(i, ok)

SpecAlert == InitAlert /\ [][NextAlert]_vars

(***************************************************************************)
(* What a tree contains                                                    *)
(***************************************************************************)
\* the conditions _validateFilter hands to _validateCondition
RECURSIVE CondsIn(_)
CondsOfItems(v) ==
  IF ~IsArray(v) THEN {}
  ELSE UNION {IF _isCondition(v.a[i]) THEN {v.a[i]} ELSE CondsIn(v.a[i]) : i \in DOMAIN v.a}
CondsIn(filter) ==
  IF filter.k # "node" THEN {}
  ELSE CondsOfItems(filter.and) \cup CondsOfItems(filter.or) \cup CondsOfItems(filter.not)

\* the logical nodes _validateFilter visits, the root included
RECURSIVE NodesIn(_)
NodesOfItems(v) ==
  IF ~IsArray(v) THEN {}
  ELSE UNION {IF _isCondition(v.a[i]) THEN {} ELSE NodesIn(v.a[i]) : i \in DOMAIN v.a}
NodesIn(filter) ==
  IF filter.k # "node" THEN {}
  ELSE {filter} \cup NodesOfItems(filter.and) \cup NodesOfItems(filter.or)
         \cup NodesOfItems(filter.not)

Accepted == phase \in {"accepted", "compiled", "threw"}

\* the same literal, changed: numbers shifted, text extended, lists kept as long
RECURSIVE RelitValue(_, _, _)
RelitValue(v, d, flip) ==
  CASE v.k = "num" -> Num(v.n + d)
    [] v.k = "str" -> Str(v.s \o "~")
    [] v.k = "bool" -> Bool(IF flip THEN ~v.b ELSE v.b)
    [] v.k = "arr" -> Arr([i \in DOMAIN v.a |-> RelitValue(v.a[i], d, flip)])
    [] OTHER -> v
RelitWithin(v, d, lo, hi) ==
  IF v.k = "num" /\ v.n >= lo /\ v.n <= hi
    THEN Num(lo + ((v.n - lo + d) % (hi - lo + 1))) ELSE v
RelitCond(c, d, flip) ==
  [c EXCEPT
     !.value = IF Truthy(c.value_is_field) THEN @ ELSE RelitValue(@, d, flip),
     !.period = IF @.k = "period"
                  THEN [@ EXCEPT !.n = RelitWithin(@, d, MinPeriodN, MaxPeriodN)] ELSE @,
     !.timeframe = IF @.k = "timeframe"
                     THEN [@ EXCEPT !.period = IF Truthy(@) THEN RelitValue(@, d, flip) ELSE @]
                     ELSE @]
RECURSIVE RelitFilter(_, _, _)
RelitItem(x, d, flip) ==
  IF _isCondition(x) THEN RelitCond(x, d, flip)
  ELSE IF x.k = "node" THEN RelitFilter(x, d, flip)
  ELSE x
RelitKey(v, d, flip) ==
  IF IsArray(v) THEN Arr([i \in DOMAIN v.a |-> RelitItem(v.a[i], d, flip)])
  ELSE RelitItem(v, d, flip)
RelitFilter(filter, d, flip) ==
  IF filter.k # "node" THEN filter
  ELSE [filter EXCEPT !.and = RelitKey(@, d, flip),
                      !.or = RelitKey(@, d, flip),
                      !.not = RelitKey(@, d, flip)]
RelitRequest(r, d, flip) ==
  [r EXCEPT !.filter = RelitFilter(@, d, flip),
            !.limit = RelitWithin(@, d, MinLimit, MaxLimit)]

\* the texts of the literals of a request: values, list elements, n, limit
RECURSIVE ValueTexts(_)
ValueTexts(v) ==
  IF v.k = "arr" THEN {Render(v)} \cup UNION {ValueTexts(v.a[i]) : i \in DOMAIN v.a}
  ELSE IF v.k \in {"num", "str", "bool"} THEN {Render(v)}
  ELSE {}
CondTexts(c) ==
  (IF Truthy(c.value_is_field) THEN {} ELSE ValueTexts(c.value))
  \cup (IF c.period.k = "period" THEN ValueTexts(c.period.n) ELSE {})
  \cup (IF c.timeframe.k = "timeframe" THEN ValueTexts(c.timeframe.period) ELSE {})
LiteralTexts(r) ==
  UNION {CondTexts(c) : c \in CondsIn(r.filter)} \cup ValueTexts(r.limit)

\* the pipeline run on another request gives the SQL text of this one
CompilesToSameSql(other) ==
  Accepts(other) => compile(Normalise(other)).sql = sql

(***************************************************************************)
(* C1                                                                      *)
(***************************************************************************)
\* C1: two notifications of the same subscription are more than one day
\* apart: after one is created, none is created for that subscription
\* until more than a day later.
C1_OneNotificationPerWindow ==
  \A i, j \in DOMAIN notifications :
    (i < j /\ notifications[i].alert_id = notifications[j].alert_id)
      => notifications[j].triggered_at > notifications[i].triggered_at + DAY

(***************************************************************************)
(* C4                                                                      *)
(***************************************************************************)
\* C4: at most one processAlerts() invocation is in flight at any time: a
\* tick that fires while a cycle is still running starts no second cycle.
C4_CyclesNeverOverlap ==
  Len(cycles) <= 1

Occurrences(tokens, t) == Cardinality({i \in DOMAIN tokens : tokens[i] = t})

\* C3: in the SQL of every tree compile() handles, the placeholders are
\* exactly $1..$k, each occurring once, with k = params.length.
C3_PlaceholdersMatchParams ==
  phase = "compiled" =>
    \A n \in 0..(Len(sql) + Len(params) + 1) :
      Occurrences(sql, P(n)) = IF n \in 1..Len(params) THEN 1 ELSE 0

\* the mixed tree (comparison, between, in, exists, cross-field, period) compiled
C3_Witness ==
  /\ phase = "compiled"
  /\ input.filter = MixedFilter
  /\ Len(params) = 10
  /\ Occurrences(sql, P(10)) = 1

(***************************************************************************)
(* C5                                                                      *)
(***************************************************************************)
TableAliases == {"c", "fq", "ph", "dp", "cs", "ae"}

\* the fixed SQL tokens: fixed text, catalog columns under the fixed aliases,
\* whitelisted operators, aggregate functions and sort directions
FixedTokens ==
  Range(Projection)
  \cup {LateralJoin("fundamentals_quarterly", "id"), LateralJoin("price_history", "time"),
        LateralJoin("debt_profile", "id"), LateralJoin("cashflow_statements", "id"),
        LateralJoin("analyst_estimates", "estimate_date")}
  \cup {"WHERE", "ORDER BY", "LIMIT", "AND", "OR", "(", ")", "NOT (", "1=1", ",",
        "BETWEEN", "IN", "IS NOT NULL", "IS NULL", "NOT EXISTS (", "EXISTS (",
        "SELECT 1 FROM (", "SELECT", "FROM (", "FROM fundamentals_quarterly",
        "WHERE ticker = c.ticker AND", "ORDER BY id DESC LIMIT", "NULLS LAST",
        "c.market_cap DESC NULLS LAST"}
  \cup DOMAIN FIELD_TABLE_MAP
  \cup {a \o "." \o col : a \in TableAliases, col \in DOMAIN FIELD_TABLE_MAP}
  \cup {LatestNonNull(col) : col \in DOMAIN FIELD_TABLE_MAP}
  \cup {DerivedSql(a) : a \in TableAliases}
  \cup ALLOWED_OPERATORS
  \cup {"AVG", "SUM", "ASC", "DESC"}

\* the names the compiler numbers itself: $i, pq_i and pq_i.<catalog column>
NumberedToken(t, n) ==
  \E i \in 1..n :
    \/ t = P(i)
    \/ t = "pq_" \o ToString(i)
    \/ \E col \in DOMAIN FIELD_TABLE_MAP : t = "pq_" \o ToString(i) \o "." \o col

StaticToken(t, n) == t \in FixedTokens \/ NumberedToken(t, n)

\* C5: every token of the SQL compiled from an accepted tree is drawn from
\* the static set; no field name, cross-field value, operator, aggregation
\* or sort direction of the input reaches the text unless it is whitelisted.
C5_TokensFromStaticSet ==
  phase = "compiled" => \A i \in DOMAIN sql : StaticToken(sql[i], Len(sql))

\* a compiled cross-field comparison sorted by a user-chosen field and direction
C5_Witness ==
  /\ phase = "compiled"
  /\ input.filter = AndOf(<<CrossCond("close", "<", Str("price_target_avg"))>>)
  /\ input.sort = Arr(<<SortItem(Str("cfo"), Str("Desc"))>>)
  /\ \E i \in DOMAIN sql : sql[i] = "ae.price_target_avg"
  /\ \E i \in DOMAIN sql : sql[i] = "DESC"

(***************************************************************************)
(* C6                                                                      *)
(***************************************************************************)
\* a comparison of a catalog field with a numeric constant
ComparisonWithConstant(c) ==
  /\ _isCondition(c)
  /\ c.field.k = "str" /\ c.field.s \in ALLOWED_FIELDS
  /\ c.operator.k = "str" /\ c.operator.s \in ComparisonOperators
  /\ c.value.k = "num"
  /\ c.value_is_field = Undef /\ c.period = Undef /\ c.timeframe = Undef

\* { and: [x OP1 a, x OP2 b] } and nothing else in the request
ConstantPair(r) ==
  /\ r.k = "dsl" /\ r.sort = Undef /\ r.limit = Undef
  /\ r.filter.k = "node" /\ LogicalKeys(r.filter) = <<"and">> /\ UnknownKeys(r.filter) = <<>>
  /\ IsArray(r.filter.and) /\ Len(r.filter.and.a) = 2
  /\ ComparisonWithConstant(r.filter.and.a[1])
  /\ ComparisonWithConstant(r.filter.and.a[2])
  /\ r.filter.and.a[1].field = r.filter.and.a[2].field

Holds(op, x, a) ==
  CASE op = "<" -> x < a
    [] op = ">" -> x > a
    [] op = "<=" -> x <= a
    [] op = ">=" -> x >= a
    [] op = "=" -> x = a
    [] op = "!=" -> x # a

\* some x meets both constraints; x ranges over halves, so that the open
\* interval between two neighbouring integers is not empty
ConstraintsMeet(c1, c2) ==
  LET a == 2 * c1.value.n
      b == 2 * c2.value.n
      lo == IF a < b THEN a ELSE b
      hi == IF a < b THEN b ELSE a
  IN \E x \in (lo - 1)..(hi + 1) : Holds(c1.operator.s, x, a) /\ Holds(c2.operator.s, x, b)

\* C6: a tree { and: [x OP1 a, x OP2 b] } of two comparisons of the same
\* field with constants is accepted if and only if some value of x meets
\* both; an unsatisfiable pair is rejected and no SQL is produced.
C6_ConflictingPairRejected ==
  (phase # "received" /\ ConstantPair(input)) =>
    (Accepted <=> ConstraintsMeet(input.filter.and.a[1], input.filter.and.a[2]))

(***************************************************************************)
(* C7                                                                      *)
(***************************************************************************)
\* C7: every logical node of an accepted tree carries exactly one of the
\* keys and / or / not, never two or three of them.
C7_OneLogicalKeyPerNode ==
  Accepted => \A node \in NodesIn(input.filter) : Len(LogicalKeys(node)) <= 1

(***************************************************************************)
(* C8                                                                      *)
(***************************************************************************)
\* { not: <value> } and nothing else in the request
NotRequest(r) ==
  /\ r.k = "dsl" /\ r.sort = Undef /\ r.limit = Undef
  /\ r.filter.k = "node" /\ LogicalKeys(r.filter) = <<"not">> /\ UnknownKeys(r.filter) = <<>>

\* C8: a `not` whose value is one valid condition is accepted and compiled
\* to NOT ( child ), and a `not` whose value is an array is rejected.
C8_NotTakesOneChild ==
  (phase # "received" /\ NotRequest(input)) =>
    /\ IsArray(input.filter.not) => phase = "rejected"
    /\ (_isCondition(input.filter.not) /\ _validateCondition(input.filter.not) = <<>>)
         => Accepted
    /\ (phase = "compiled" /\ _isCondition(input.filter.not))
         => \E i \in DOMAIN sql : sql[i] = "NOT ("

(***************************************************************************)
(* C9                                                                      *)
(***************************************************************************)
\* validation_rules.md, Rule 3.2: the operators of each kind of field
StringKindFields == {"ticker", "name", "sector", "industry", "exchange"}
OperatorsOfKind(field) ==
  IF field \in StringKindFields THEN {"=", "!=", "in", "exists"}
  ELSE {"<", ">", "<=", ">=", "=", "!=", "between", "exists"}

\* C9: every condition of an accepted tree uses an operator that Rule 3.2
\* allows for the kind of its field.
C9_OperatorFitsFieldKind ==
  Accepted =>
    \A c \in CondsIn(input.filter) :
      (c.field.k = "str" /\ c.operator.k = "str") => c.operator.s \in OperatorsOfKind(c.field.s)

(***************************************************************************)
(* C10                                                                     *)
(***************************************************************************)
\* C10: every condition of an accepted tree that has a period after
\* validation, written as `period` or normalised from `timeframe`, has a
\* numeric n with 1 <= n <= 20.
C10_PeriodWithinBounds ==
  Accepted =>
    \A c \in CondsIn(dsl.filter) :
      Truthy(c.period) =>
        /\ c.period.k = "period"
        /\ c.period.n.k = "num"
        /\ c.period.n.n >= MinPeriodN /\ c.period.n.n <= MaxPeriodN

(***************************************************************************)
(* C11                                                                     *)
(***************************************************************************)
\* the number of logical nodes on the longest path from the root down
RECURSIVE Depth(_)
DepthOfItems(v) ==
  IF ~IsArray(v) THEN {0}
  ELSE {0} \cup {IF _isCondition(v.a[i]) THEN 0 ELSE Depth(v.a[i]) : i \in DOMAIN v.a}
Highest(S) == CHOOSE x \in S : \A y \in S : y <= x
Depth(filter) ==
  IF filter.k # "node" THEN 0
  ELSE 1 + Highest(DepthOfItems(filter.and) \cup DepthOfItems(filter.or)
                     \cup DepthOfItems(filter.not))

\* C11: a tree of nesting depth 5 whose conditions are valid is accepted,
\* and no accepted tree has nesting depth 6 or more.
C11_NestingDepthLimited ==
  /\ (phase # "received" /\ input.filter = DeepChain(MaxNesting)) => Accepted
  /\ Accepted => Depth(input.filter) <= MaxNesting

(***************************************************************************)
(* C12                                                                     *)
(***************************************************************************)
\* C12: the compiled SQL never names a derived field as a column of a
\* table alias; a derived field is always written as its formula.
C12_DerivedFieldExpanded ==
  phase = "compiled" =>
    \A i \in DOMAIN sql :
      sql[i] \notin {a \o "." \o d : a \in TableAliases, d \in DerivedFields}

(***************************************************************************)
(* C13                                                                     *)
(***************************************************************************)
\* the tokens of the WHERE clause: after WHERE, before ORDER BY
Position(tokens, t) ==
  CHOOSE i \in DOMAIN tokens : tokens[i] = t /\ \A j \in 1..(i - 1) : tokens[j] # t
WhereClause(tokens) ==
  SubSeq(tokens, Position(tokens, "WHERE") + 1, Position(tokens, "ORDER BY") - 1)

\* C13: no predicate of the WHERE clause reads a fundamentals column from
\* the LATERAL-projected latest row fq.
C13_PredicatesAvoidLateralRow ==
  phase = "compiled" =>
    \A t \in Range(WhereClause(sql)) : t \notin {"fq." \o col : col \in FundamentalsFields}

(***************************************************************************)
(* C17                                                                     *)
(***************************************************************************)
\* the tables that are joined by LEFT JOIN LATERAL, with their ordering keys
LateralTables ==
  {<<"fundamentals_quarterly", "id">>, <<"price_history", "time">>, <<"debt_profile", "id">>,
   <<"cashflow_statements", "id">>, <<"analyst_estimates", "estimate_date">>}

\* the texts that read a column through the alias of a table
ReadsThrough(alias) ==
  {alias \o "." \o col : col \in DOMAIN FIELD_TABLE_MAP} \cup {DerivedSql(alias)}

\* C17: every table whose alias is read after the FROM clause, in the WHERE
\* clause or in ORDER BY, has its LEFT JOIN LATERAL in the SQL.
C17_ReferencedTablesJoined ==
  phase = "compiled" =>
    \A tk \in LateralTables :
      (\E i \in DOMAIN sql : i > Len(Projection) /\ sql[i] \in ReadsThrough(_getTableAlias(tk[1])))
        => LateralJoin(tk[1], tk[2]) \in Range(sql)

(***************************************************************************)
(* C16                                                                     *)
(***************************************************************************)
\* the tree is one `and` or `or` node around one condition
OnlyCondition(filter) ==
  /\ filter.k = "node" /\ LogicalKeys(filter) \in {<<"and">>, <<"or">>}
  /\ UnknownKeys(filter) = <<>>
  /\ IsArray(KeyValue(filter, LogicalKeys(filter)[1]))
  /\ Len(KeyValue(filter, LogicalKeys(filter)[1]).a) = 1
  /\ _isCondition(KeyValue(filter, LogicalKeys(filter)[1]).a[1])
TheCondition(filter) == KeyValue(filter, LogicalKeys(filter)[1]).a[1]

\* value and N, or every element of the `in` list and N
PeriodParams(c) ==
  IF IsStr(c.operator, "in") /\ IsArray(c.value) THEN Len(c.value.a) + 1 ELSE 2

\* C16: a tree of one condition that carries a period compiles to the
\* parameters of that condition, value and N, followed by the limit.
C16_PeriodPushesValueAndN ==
  (phase = "compiled" /\ OnlyCondition(dsl.filter) /\ Truthy(TheCondition(dsl.filter).period))
    => Len(params) = PeriodParams(TheCondition(dsl.filter)) + 1

(***************************************************************************)
(* Running a compiled period condition against one instrument's quarters   *)
(***************************************************************************)

MaxRows == 3     \* quarterly rows held for the instrument
RowValues == {Null, Num(3), Num(5), Num(7)}
RowSeqs == UNION {[1..len -> RowValues] : len \in 0..MaxRows}

\* one fundamentals condition under `and`, with or without a period
EvalOperators == ComparisonOperators \cup {"all_quarters"}
EvalPeriods ==
  {Undef} \cup
  {Period(Str("last_n_quarters"), Num(n), agg) :
     n \in {1, 2}, agg \in {Undef} \cup {Str(a) : a \in ALLOWED_AGGREGATIONS}}
EvalConds ==
  {WithPeriod(Cond("net_income", op, Num(5)), p) : op \in EvalOperators, p \in EvalPeriods}
EvalRequests == {Request(AndOf(<<c>>), Undef, Undef) : c \in EvalConds}

\* the bound value of placeholder $k
ParamOf(token, ps) == ps[CHOOSE k \in DOMAIN ps : P(k) = token]

\* `WHERE col IS NOT NULL ORDER BY id DESC LIMIT n`: the newest n non-null
\* values of the column
NonNullRows(rs) == SelectSeq(rs, LAMBDA v : v.k = "num")
LastRows(rs, n) ==
  LET live == NonNullRows(rs) IN
  SubSeq(live, IF Len(live) > n THEN Len(live) - n + 1 ELSE 1, Len(live))

RECURSIVE SumOf(_)
SumOf(rs) == IF rs = <<>> THEN 0 ELSE Head(rs).n + SumOf(Tail(rs))

\* a row of the inner query passes `pq.col <op> $v`
Passing(window, op, v) == {i \in DOMAIN window : Holds(op, window[i].n, v)}

\* x <op> $v in SQL: NULL (hence not selected) when x is NULL
Scalar(x, op, v) == IF x.k # "num" THEN "no" ELSE IF Holds(op, x.n, v) THEN "yes" ELSE "no"

\* the WHERE clause emitted for one condition, evaluated for one instrument
\* whose column holds rs; a token in operator position that is no SQL
\* comparison makes the statement fail
ExecWhere(w, ps, rs) ==
  IF w[1] = "NOT EXISTS (" THEN
    IF w[15] \notin ComparisonOperators THEN "error"
    ELSE IF Passing(LastRows(rs, ParamOf(w[10], ps).n), w[15], ParamOf(w[16], ps).n) = {}
         THEN "yes" ELSE "no"
  ELSE IF w[1] = "EXISTS (" THEN
    IF w[15] \notin ComparisonOperators THEN "error"
    ELSE IF Passing(LastRows(rs, ParamOf(w[10], ps).n), w[15], ParamOf(w[16], ps).n) # {}
         THEN "yes" ELSE "no"
  ELSE IF w[1] = "(" /\ w[2] = "SELECT" THEN
    LET window == LastRows(rs, ParamOf(w[15], ps).n) IN
    IF w[19] \notin ComparisonOperators THEN "error"
    ELSE IF window = <<>> THEN "no"
    ELSE IF w[3] = "SUM" THEN Scalar(Num(SumOf(window)), w[19], ParamOf(w[20], ps).n)
    ELSE \* AVG(x) <op> v, with both sides scaled by the row count
      Scalar(Num(SumOf(window)), w[19], ParamOf(w[20], ps).n * Len(window))
  ELSE IF Len(w) # 3 \/ w[2] \notin ComparisonOperators THEN "error"
  ELSE IF w[1] = LatestNonNull("net_income") THEN
    Scalar(IF NonNullRows(rs) = <<>> THEN Null ELSE LastRows(rs, 1)[1], w[2], ParamOf(w[3], ps).n)
  ELSE \* fq.col: the column of the newest row, null or not
    Scalar(IF rs = <<>> THEN Null ELSE rs[Len(rs)], w[2], ParamOf(w[3], ps).n)

InitEval ==
  /\ input \in EvalRequests
  /\ dsl = input
  /\ phase = "received"
  /\ errors = <<>>
  /\ sql = <<>>
  /\ params = <<>>
  /\ requiredTables = <<>>
  /\ rows \in RowSeqs
  /\ selected = "pending"
  /\ AlertsIdle

\* the query runs; the instrument is returned iff the WHERE clause is true
Execute ==
  /\ phase = "compiled"
  /\ phase' = "executed"
  /\ selected' = ExecWhere(WhereClause(sql), params, rows)
  /\ UNCHANGED <<input, dsl, errors, sql, params, requiredTables, rows>>
  /\ UNCHANGED alertVars
  /\ UNCHANGED evalVars

NextEval == Validate \/ Compile \/ Execute

SpecEval == InitEval /\ [][NextEval]_vars

(***************************************************************************)
(* C14, C15                                                                *)
(***************************************************************************)

EvalCond == dsl.filter.and.a[1]

\* C14: a period condition with aggregation `all` selects the instrument
\* exactly when each of its last N non-null quarters satisfies the
\* condition's own operator: the inverted operator of the NOT EXISTS form is
\* the exact complement of the operator the request named.
C14_AllIsComplementOfInverse ==
  (/\ phase = "executed"
   /\ Truthy(EvalCond.period)
   /\ IsStr(PeriodAggregation(EvalCond.period), "all"))
  => /\ EvalCond.operator.s \in ComparisonOperators
     /\ selected =
          IF \A i \in DOMAIN LastRows(rows, EvalCond.period.n.n) :
               Holds(EvalCond.operator.s, LastRows(rows, EvalCond.period.n.n)[i].n,
                     EvalCond.value.n)
          THEN "yes" ELSE "no"

\* the same comparison without `period`
Twin == compile(Normalise(Request(AndOf(<<WithPeriod(EvalCond, Undef)>>), Undef, Undef)))

\* C15: a period condition over one quarter (n = 1) selects the instrument
\* exactly when the same comparison without a period (the latest non-null
\* value) selects it.
C15_OneQuarterIsLatest ==
  (/\ phase = "executed"
   /\ EvalCond.operator.s \in ComparisonOperators
   /\ Truthy(EvalCond.period)
   /\ EvalCond.period.n = Num(1))
  => selected = ExecWhere(WhereClause(Twin.sql), Twin.params, rows)

(***************************************************************************)
(* C18, C19, C20                                                           *)
(***************************************************************************)

NotificationsOf(id) == SelectSeq(notifications, LAMBDA n : n.alert_id = id)
NoTriggerInProgress == \A i \in DOMAIN cycles : cycles[i].pc \notin {"notify", "update"}

\* C18: a trigger's notification and row update happen together: whenever no
\* trigger is in progress, each subscription's trigger_count equals the
\* number of notifications emitted for it, and once there is one,
\* last_triggered and last_evaluated are one time, not before the latest
\* notification's, whether or not the insert or the update failed.
C18_NotificationAndRowTogether ==
  NoTriggerInProgress =>
    \A id \in DOMAIN alerts :
      /\ alerts[id].trigger_count = Len(NotificationsOf(id))
      /\ NotificationsOf(id) # <<>> =>
           /\ alerts[id].last_triggered.k = "num"
           /\ alerts[id].last_evaluated = alerts[id].last_triggered
           /\ alerts[id].last_triggered.n
                >= NotificationsOf(id)[Len(NotificationsOf(id))].triggered_at

\* the first alert of the ticker whose data cycle i is waiting for
FirstAlert(i) == alerts[Head(Head(cycles[i].groups).ids)]
Fetched(b) == Truthy(b.quote) \/ Truthy(b.metadata) \/ Truthy(b.fundamentals)

\* C19: when the data of a ticker arrives and its first alert is evaluated
\* and does not trigger, the alert's last_evaluated becomes the evaluation
\* time while its last_triggered and trigger_count stay as they were.
C19_NonTriggerUpdatesLastEvaluated ==
  [][\A i \in DOMAIN cycles, b \in Bundles :
       (/\ FetchReturns(i, b.quote, b.metadata, b.fundamentals)
        /\ Fetched(b)
        /\ ~Triggered(FirstAlert(i), b.quote, b.metadata, b.fundamentals, now))
       => /\ alerts'[FirstAlert(i).id].last_evaluated = Num(now)
          /\ alerts'[FirstAlert(i).id].last_triggered = FirstAlert(i).last_triggered
          /\ alerts'[FirstAlert(i).id].trigger_count = FirstAlert(i).trigger_count]_vars

\* evaluateAlert went on to triggerAlert for the first alert of the ticker
FirstAlertTriggers(i, b) ==
  cycles' = [cycles EXCEPT ![i] =
               Cycle("notify", cycles[i].groups, Head(cycles[i].groups).ids,
                     b.quote, b.metadata, b.fundamentals)]

\* C20: an active fundamental alert {metric, op, value} with op one of
\* <, >, <=, >=, = triggers exactly when the metric's current value in the
\* fundamentals bundle satisfies `metric op value`.
C20_FundamentalOperatorDecides ==
  [][\A i \in DOMAIN cycles, b \in Bundles :
       (/\ FetchReturns(i, b.quote, b.metadata, b.fundamentals)
        /\ FirstAlert(i).alert_type = "fundamental_condition"
        /\ FirstAlert(i).condition_json.fundamental_operator.k = "str"
        /\ FirstAlert(i).condition_json.fundamental_operator.s \in {"<", ">", "<=", ">=", "="}
        /\ Truthy(b.fundamentals)
        /\ Metric(b.fundamentals, FirstAlert(i).condition_json.fundamental_metric).k = "num")
       => (FirstAlertTriggers(i, b)
            <=> Holds(FirstAlert(i).condition_json.fundamental_operator.s,
                      Metric(b.fundamentals, FirstAlert(i).condition_json.fundamental_metric).n,
                      FirstAlert(i).condition_json.fundamental_value.n))]_vars

(***************************************************************************)
(* One evaluateAlert() call on one stored alert                            *)
(***************************************************************************)

\* createAlert: the alert_type and condition_json stored for a front-end type
createAlert(alert_type, condition) ==
  CASE alert_type = "price_below_buy_price" ->
         [alert_type |-> "price_threshold", condition_json |-> condition]
    [] alert_type = "price_vs_analyst" ->
         [alert_type |-> "fundamental_condition",
          condition_json |-> [condition EXCEPT !.metric = Str("analyst_target")]]
    [] alert_type = "earnings_upcoming" ->
         [alert_type |-> "event",
          condition_json |-> [condition EXCEPT !.event_type = Str("earnings_date")]]
    [] alert_type = "buyback_announced" ->
         [alert_type |-> "buyback_announced", condition_json |-> condition]
    [] alert_type = "fundamental_condition" ->
         [alert_type |-> "fundamental_condition", condition_json |-> condition]
    [] OTHER -> [alert_type |-> alert_type, condition_json |-> condition]

\* the requests the front end sends for each of its alert types
ApiAlerts ==
  {<<"price_threshold", PriceAbove50>>,
   <<"price_below_buy_price", PriceAbove50>>,
   <<"price_below_buy_price", PercentOnly>>,
   <<"price_vs_analyst", NoCondition>>,
   <<"earnings_upcoming", EarningsIn3Days>>,
   <<"buyback_announced", BuybackIn3Days>>,
   <<"fundamental_condition", PeBelow15>>,
   <<"fundamental_condition", PeLessThan15>>}

\* rows written by createAlert, and rows whose alert_type is the
\* processor's own name for the kind
StoredAlerts ==
  {createAlert(a[1], a[2]) : a \in ApiAlerts}
  \cup {[alert_type |-> a[1], condition_json |-> a[2]] : a \in ApiAlerts}

DateOffsets == {-2 * DAY, -DAY, -1, 0, 1, 3 * DAY, 3 * DAY + 1}
EvalQuotes == {Null, Quote(40), Quote(60)}
EvalMetadata ==
  {Null, Metadata(Null, Null)}
  \cup {Metadata(Date(FirstInstant + d), Date(FirstInstant - d)) : d \in DateOffsets}
EvalFundamentals ==
  {Null, Fundamentals(Undef), Fundamentals(Null), Fundamentals(Num(10)), Fundamentals(Num(20))}
EvalBundles ==
  {Bundle(q, m, f) : q \in EvalQuotes, m \in EvalMetadata, f \in EvalFundamentals}

InitTrigger ==
  /\ DslIdle
  /\ now = FirstInstant
  /\ alerts \in {<<Row(1, Str("INFY"), a.alert_type, a.condition_json, TRUE, Null)>> :
                   a \in StoredAlerts}
  /\ notifications = <<>>
  /\ isRunning = FALSE
  /\ timer = 0
  /\ timersActive = {}
  /\ cycles = <<>>
  /\ started = 0
  /\ data \in EvalBundles
  /\ triggered = "pending"

\* evaluateAlert(alert, quote, metadata, fundamentals), with triggerAlert's
\* insert and update each succeeding or throwing
EvaluateAlert(inserted, updated) ==
  /\ triggered = "pending"
  /\ triggered' =
       IF Triggered(alerts[1], data.quote, data.metadata, data.fundamentals, now)
         THEN "yes" ELSE "no"
  /\ notifications' =
       IF triggered' = "yes" /\ inserted
         THEN Append(notifications, [alert_id |-> 1, triggered_at |-> now])
       ELSE notifications
  /\ alerts' =
       IF triggered' = "yes" /\ inserted /\ updated THEN Updated(alerts, 1, now)
       ELSE alerts
  /\ UNCHANGED <<now, isRunning, timer, timersActive, cycles, started, data>>
  /\ UNCHANGED dslVars

NextTrigger == \E inserted, updated \in BOOLEAN : EvaluateAlert(inserted, updated)

SpecTrigger == InitTrigger /\ [][NextTrigger]_vars

(***************************************************************************)
(* C21                                                                     *)
(***************************************************************************)

NoData == data.quote = Null /\ data.metadata = Null /\ data.fundamentals = Null

\* C21: whatever the alert's kind and condition, an evaluation whose quote,
\* metadata and fundamentals are all null decides triggered = false, creates
\* no notification and leaves the alert row unmarked.
C21_NoDataNeverTriggers ==
  (triggered # "pending" /\ NoData) =>
    /\ triggered = "no"
    /\ notifications = <<>>
    /\ alerts[1].trigger_count = 0
    /\ alerts[1].last_triggered = Null

C21_Witness ==
  /\ triggered = "no"
  /\ NoData
  /\ alerts[1].alert_type = "fundamental_condition"
  /\ alerts[1].condition_json = PeBelow15

(***************************************************************************)
(* C22                                                                     *)
(***************************************************************************)

\* the places a subscription holds in the buckets of a cycle
PlacesOf(groups, id) ==
  {<<g, k>> \in (DOMAIN groups) \X (1..Len(alerts)) :
     k \in DOMAIN groups[g].ids /\ groups[g].ids[k] = id}

\* C22: when a cycle has loaded its working set, every subscription of the
\* set sits in exactly one bucket to be evaluated, the subscriptions without
\* a ticker included.
C22_WorkingSetFullyBucketed ==
  [][\A i \in DOMAIN cycles :
       QueryReturns(i, TRUE) =>
         \A id \in Range(RowsOfQuery(alerts, now)) :
           /\ Len(cycles') = Len(cycles)
           /\ Cardinality(PlacesOf(cycles'[i].groups, id)) = 1]_vars

(***************************************************************************)
(* C23                                                                     *)
(***************************************************************************)

\* the alerts still to come in the ticker group of cycle i that trigger on
\* the data the cycle holds
LaterHits(i) ==
  {k \in DOMAIN Tail(cycles[i].pending) :
     Triggered(alerts[Tail(cycles[i].pending)[k]],
               cycles[i].quote, cycles[i].metadata, cycles[i].fundamentals, now)}

\* cycle i goes on with the alert after the current one: to the next alert of
\* the group that triggers, else to the next ticker group, else to its end
GoesOn(i) ==
  IF LaterHits(i) # {} THEN
    /\ Len(cycles') = Len(cycles)
    /\ cycles'[i].pc = "notify"
    /\ Head(cycles'[i].pending)
         = Tail(cycles[i].pending)[CHOOSE k \in LaterHits(i) : \A j \in LaterHits(i) : k <= j]
  ELSE IF Len(cycles[i].groups) > 1 THEN
    /\ Len(cycles') = Len(cycles)
    /\ cycles'[i].pc = "fetch"
    /\ cycles'[i].groups = Tail(cycles[i].groups)
  ELSE Len(cycles') = Len(cycles) - 1

\* C23: a notification insert or an alert-row update that throws does not
\* abort the cycle: the remaining alerts of the same ticker group and the
\* later groups are still evaluated.
C23_FailureDoesNotAbortCycle ==
  [][\A i \in DOMAIN cycles :
       (NotifyReturns(i, FALSE) \/ UpdateReturns(i, FALSE)) => GoesOn(i)]_vars

\* alert 1 triggered and its insert threw; the cycle is now triggering alert 2
\* of the same group
C23_Witness ==
  /\ notifications = <<>>
  /\ Len(alerts) = 2
  /\ \E i \in DOMAIN cycles :
       /\ cycles[i].pc = "notify"
       /\ Head(cycles[i].groups).ids = <<1, 2>>
       /\ cycles[i].pending = <<2>>
       /\ Triggered(alerts[1], cycles[i].quote, cycles[i].metadata, cycles[i].fundamentals, now)

(***************************************************************************)
(* C24                                                                     *)
(***************************************************************************)

\* cycle i receives the data of its next ticker and evaluates that ticker's
\* alerts
EvaluatesNextTicker(i) ==
  \E b \in Bundles : Fetched(b) /\ FetchReturns(i, b.quote, b.metadata, b.fundamentals)

\* cycle i goes from the alert it has finished with to a further alert
EvaluatesNextAlert(i) ==
  /\ \E ok \in BOOLEAN : NotifyReturns(i, ok) \/ UpdateReturns(i, ok)
  /\ Len(cycles') = Len(cycles)
  /\ cycles'[i].pc = "notify"
  /\ cycles[i].pc = "update" \/ cycles'[i].pending # cycles[i].pending

\* C24: once stop() has cancelled the scheduler, a cycle that was in progress
\* finishes the writes of the alert it is processing and evaluates no further
\* alert.
C24_StoppedCycleEvaluatesNoMore ==
  [][~isRunning =>
       \A i \in DOMAIN cycles : ~EvaluatesNextTicker(i) /\ ~EvaluatesNextAlert(i)]_vars

(***************************************************************************)
(* marketController.js: translateNLToDSL, ahead of validate and compile    *)
(***************************************************************************)

MaxWords == 3    \* longest natural-language query, in words
\* a query is its sequence of words, lower-cased and trimmed
Vocabulary == {"it", "nse", "buyback", "pe", "below", "15"}
Queries == UNION {[1..len -> Vocabulary] : len \in 0..MaxWords}

\* { filter: undefined } when nothing was recognised
translateToNoFilter(query) == Request(Undef, Undef, Undef)

\* extractSector, extractExchange, extractBuyback: alias lookup
extractSector(query) ==
  IF "it" \in Range(query) THEN <<Cond("sector", "=", Str("Technology"))>> ELSE <<>>
extractExchange(query) ==
  IF "nse" \in Range(query) THEN <<Cond("exchange", "=", Str("NSI"))>> ELSE <<>>
extractBuyback(query) ==
  IF "buyback" \in Range(query)
    THEN <<Cond("last_buyback_date", "exists", Bool(TRUE))>> ELSE <<>>

\* findMetricField(phrase): METRIC_MAP, by substring
findMetricField(phrase) == IF "pe" \in Range(phrase) THEN Str("pe_ratio") ELSE Null

\* the places where the comparison pattern `(.+?) op number` can match
PatternMatches(words) ==
  {j \in 2..(Len(words) - 1) : words[j] = "below" /\ words[j + 1] = "15"}

\* parseCondition(conditionStr): the standard comparison pattern
parseCondition(words) ==
  IF PatternMatches(words) = {} THEN <<>>
  ELSE LET j == CHOOSE x \in PatternMatches(words) : \A y \in PatternMatches(words) : x <= y
           field == findMetricField(SubSeq(words, 1, j - 1))
       IN IF field = Null THEN <<>> ELSE <<Cond(field.s, "<", Num(15))>>

\* extractMetricConditions(query): the sector and exchange phrases are
\* removed, what is left is parsed as one condition
extractMetricConditions(query) ==
  parseCondition(SelectSeq(query, LAMBDA w : w \notin {"it", "nse"}))

translateNLToDSL(query) ==
  LET conditions == extractSector(query) \o extractExchange(query)
                      \o extractBuyback(query) \o extractMetricConditions(query)
  IN IF Len(conditions) > 0 THEN Request(AndOf(conditions), Undef, Undef)
     ELSE Request(BlankNode, Undef, Undef)

InitNL ==
  /\ input \in {[k |-> "query", words |-> q] : q \in Queries}
  /\ dsl = Undef
  /\ phase = "asked"
  /\ errors = <<>>
  /\ sql = <<>>
  /\ params = <<>>
  /\ requiredTables = <<>>
  /\ rows = <<>>
  /\ selected = "pending"
  /\ AlertsIdle

\* const dsl = translateNLToDSL(query)
Translate ==
  /\ phase = "asked"
  /\ input' = translateNLToDSL(input.words)
  /\ dsl' = input'
  /\ phase' = "received"
  /\ UNCHANGED <<errors, sql, params, requiredTables, rows, selected>>
  /\ UNCHANGED alertVars
  /\ UNCHANGED evalVars

NextNL == Translate \/ Validate \/ Compile

SpecNL == InitNL /\ [][NextNL]_vars

(***************************************************************************)
(* C25                                                                     *)
(***************************************************************************)

EmptyTree == Request(BlankNode, Undef, Undef)

C26_PastEarningsNeverTrigger ==
  (triggered = "yes" /\ alerts[1].alert_type = "earnings_upcoming") =>
    /\ data.metadata.next_earnings_date.t >= now
    /\ data.metadata.next_earnings_date.t
         <= now + alerts[1].condition_json.days_before.n * DAY

\* the front-end alert types whose stored rows must be evaluable
SupportedTypes ==
  {"earnings_upcoming", "buyback_announced", "price_below_buy_price", "fundamental_condition"}

\* C27: a row that createAlert stored for a supported front-end alert type
\* is evaluated by the check of that type: the evaluation decides what the
\* processor's branch for the front-end type decides on the same data.
C27_StoredTypeHasBranch ==
  \A a \in ApiAlerts :
    (/\ a[1] \in SupportedTypes
     /\ triggered # "pending"
     /\ alerts[1].alert_type = createAlert(a[1], a[2]).alert_type
     /\ alerts[1].condition_json = createAlert(a[1], a[2]).condition_json)
    => (triggered = "yes")
         = Triggered(Row(1, Str("INFY"), a[1], a[2], TRUE, Null),
                     data.quote, data.metadata, data.fundamentals, now)

\* C29: a fundamental_condition alert triggers only when the fetched
\* fundamentals hold a number for the named metric: a missing or null metric
\* is not comparable and is not read as 0.
C29_NullMetricNeverTriggers ==
  (triggered = "yes" /\ alerts[1].alert_type = "fundamental_condition") =>
    Metric(data.fundamentals, alerts[1].condition_json.fundamental_metric).k = "num"

(***************************************************************************)
(* C28                                                                     *)
(***************************************************************************)

\* C28: compile() returns a result, never throws, for every tree the
\* validator accepted.
C28_AcceptedTreeCompiles == phase # "threw"

(***************************************************************************)
(* C30                                                                     *)
(***************************************************************************)

\* C30: whatever start() and stop() calls were made, at most one interval
\* timer is active and isRunning is true exactly when one is; while the
\* processor is running no timer is created and a cycle begins only on a
\* timer tick, so a second start() adds neither a timer nor a cycle.
C30_OneTimerWhileRunning ==
  /\ [](/\ Cardinality(timersActive) <= 1
        /\ isRunning <=> timersActive # {}
        /\ isRunning <=> timer # 0)
  /\ [][isRunning =>
          /\ timersActive' \subseteq timersActive
          /\ started' > started => now' > now]_vars

\* started, stopped and started again before the first tick
C30_Witness ==
  /\ isRunning
  /\ started = 2
  /\ now = FirstInstant
  /\ timersActive = {timer}

====
